---- MODULE Spec2Model ----
(***************************************************************************)
(* A model of the summarization engine of tldreply-bot: the class          *)
(* GeminiService of services/gemini.ts (src/unnamed/part_004).             *)
(*                                                                         *)
(*   - the Completion Gateway: generateContentWithFallback ("complete"),   *)
(*     getNextAvailableKeyIndex, markKeyAsExhausted and its recovery timer *)
(*   - the Hierarchical Summarizer: summarizeMessages ("summarize"),       *)
(*     summarizeLargeMessageSet, summarizeChunk, getStyleInstructions      *)
(*                                                                         *)
(* A JavaScript string is a sequence of tokens (TLA+ strings): a token is  *)
(* one character where the code looks at characters ("$", "&", "`", "'"),  *)
(* and a word or a fixed block of text elsewhere.  The empty string is the *)
(* empty sequence; undefined, null and '' are all falsy in the code's      *)
(* tests (||, ?:, if) and are all modelled by the empty sequence.          *)
(*                                                                         *)
(* An async function runs without interruption up to its next await, so    *)
(* one action is the code between two awaits.                              *)
(***************************************************************************)
EXTENDS Integers, Sequences, FiniteSets, TLC

VARIABLES
  keys,              \* this.keys: the credential list (fixed at construction)
  currentKeyIndex,   \* this.currentKeyIndex: the Rotation Cursor (0-based)
  exhaustedKeys,     \* this.exhaustedKeys: Set<number>
  exhaustionTimers,  \* this.exhaustionTimers: index -> due time of its timer
  now,               \* the wall clock, in milliseconds
  markedAt,          \* exhausted index -> the time it was marked exhausted
  call,              \* per request: the frame of generateContentWithFallback
  sum,               \* per request: the frame of summarizeMessages
  completeLog,       \* per request: prompts passed to complete by its current summarize call
  failures,          \* provider failures so far in this run
  started            \* top-level calls started so far in this run

vars == <<keys, currentKeyIndex, exhaustedKeys, exhaustionTimers, now, markedAt,
          call, sum, completeLog, failures, started>>

gatewayVars == <<keys, currentKeyIndex, exhaustedKeys, exhaustionTimers>>

(***************************************************************************)
(* Bounds of the model.                                                    *)
(***************************************************************************)
MaxKeys == 2          \* credentials of a Gateway: 1..MaxKeys
MaxCalls == 2         \* complete calls made one after the other on one Gateway
MaxFailures == 1      \* provider failures during the summarize calls of one run
MaxSmallLen == 2      \* message lists up to this length are enumerated in full

Requests == {1, 2}

(***************************************************************************)
(* Strings.                                                                *)
(***************************************************************************)
Truthy(s) == s # <<>>

\* the tokens of the characters U+0060 and U+0027
Backquote == "<backquote>"
Apostrophe == "'"

\* a || b on strings
OrElse(a, b) == IF Truthy(a) THEN a ELSE b

\* s.includes(marker), for a marker that is one token
Includes(s, marker) == \E k \in 1..Len(s) : s[k] = marker

\* t occurs in s as a contiguous run of tokens
Contains(s, t) ==
  \/ t = <<>>
  \/ \E k \in 1..(Len(s) - Len(t) + 1) :
       s[k] = t[1] /\ SubSeq(s, k, k + Len(t) - 1) = t

\* the concatenation of parts[lo..hi], each followed (but for the last) by sep
RECURSIVE JoinRange(_, _, _, _)
JoinRange(parts, sep, lo, hi) ==
  IF lo > hi THEN <<>>
  ELSE IF lo = hi THEN parts[lo]
  ELSE LET mid == (lo + hi) \div 2
       IN JoinRange(parts, sep, lo, mid) \o sep \o JoinRange(parts, sep, mid + 1, hi)

\* parts.join(sep)
Join(parts, sep) == JoinRange(parts, sep, 1, Len(parts))

Min(S) == CHOOSE x \in S : \A y \in S : x <= y


(***************************************************************************)
(* The Completion Gateway: construction.                                   *)
(***************************************************************************)
\* constructor, for an array of n keys: this.keys is the array itself
Constructor(n) == [i \in 1..n |-> <<"AIza-key-", ToString(i - 1)>>]

numKeys == Len(keys)         \* this.keys.length
KeyIndices == 0..(numKeys - 1)

\* the Model Chain
models ==
  << "gemini-2.0-flash-001", "gemini-2.5-flash", "gemini-2.0-flash-lite-001",
     "gemini-flash-latest", "gemini-2.5-pro" >>

maxGlobalRetries == 3
\* a recovery delay of half a minute
ExhaustionResetHalved == 30 * 1000

\* the delay of the recovery timer
ExhaustionResetMs == 60 * 1000
\* the delay counted in seconds
BackoffBaseSeconds == 1000 \div 1000
BackoffBaseMs == 1000

\* no placeholder at all
EmptyText == <<>>

NoTextPlaceholder == <<"Generated summary (no text returned)">>

(***************************************************************************)
(* Provider failures: an error is a record holding its message.            *)
(***************************************************************************)
Err(msg) == [message |-> msg]
NoError == Err(<<"<lastError is undefined>">>)

\* const errorMessage = error.message || 'Unknown error'
errorMessage(error) == OrElse(error.message, <<"Unknown error">>)

\* the quota test also matching an invalid key
IsQuotaErrorOrInvalidKey(error) ==
  LET m == errorMessage(error)
  IN Includes(m, "QUOTA_EXCEEDED") \/ Includes(m, "429") \/ Includes(m, "RESOURCE_EXHAUSTED")
       \/ Includes(m, "API_KEY_INVALID")

IsQuotaError(error) ==
  LET m == errorMessage(error)
  IN Includes(m, "QUOTA_EXCEEDED") \/ Includes(m, "429") \/ Includes(m, "RESOURCE_EXHAUSTED")

IsModelOrServerError(error) ==
  LET m == errorMessage(error)
  IN Includes(m, "NOT_FOUND") \/ Includes(m, "503") \/ Includes(m, "500")

IsInvalidKeyError(error) == Includes(errorMessage(error), "API_KEY_INVALID")

(***************************************************************************)
(* getNextAvailableKeyIndex: scan forward circularly from the cursor; the  *)
(* cursor moves with the scan.  The result is <<returned index, cursor>>.  *)
(***************************************************************************)
RECURSIVE ScanKeys(_, _, _, _, _)
ScanKeys(cursor, attempts, startIndex, exhausted, n) ==
  IF attempts < n
    THEN IF cursor \notin exhausted
           THEN <<cursor, cursor>>
           ELSE ScanKeys((cursor + 1) % n, attempts + 1, startIndex, exhausted, n)
    ELSE <<startIndex, cursor>>

\* the cursor as it stands, whatever is exhausted
getCurrentKeyIndex(cursor, exhausted, n) == <<cursor, cursor>>

\* the lowest available index, wherever the cursor stands
getLowestAvailableKeyIndex(cursor, exhausted, n) ==
  IF \E i \in 0..(n - 1) : i \notin exhausted
    THEN LET low == CHOOSE i \in 0..(n - 1) :
                      /\ i \notin exhausted
                      /\ \A j \in 0..(n - 1) : j \notin exhausted => i <= j
         IN <<low, low>>
    ELSE <<cursor, cursor>>

\* the scan restarting from the first key when every key is exhausted
getFirstKeyWhenAllExhausted(cursor, exhausted, n) ==
  IF \A i \in 0..(n - 1) : i \in exhausted
    THEN <<0, 0>>
    ELSE ScanKeys(cursor, 0, cursor, exhausted, n)

getNextAvailableKeyIndex(cursor, exhausted, n) ==
  ScanKeys(cursor, 0, cursor, exhausted, n)

(***************************************************************************)
(* markKeyAsExhausted(index): the new exhaustedKeys and exhaustionTimers.  *)
(* An index already in the set is left alone and no timer is armed.        *)
(***************************************************************************)
markedKeys(index, exhausted) == exhausted \cup {index}

\* markKeyAsExhausted without its guard: every call arms a timer anew
markedTimersRearming(index, exhausted, timers, t) ==
  [i \in (DOMAIN timers) \cup {index} |->
     IF i = index THEN t + ExhaustionResetMs ELSE timers[i]]

markedTimers(index, exhausted, timers, t) ==
  IF index \in exhausted
    THEN timers
    ELSE [i \in (DOMAIN timers) \cup {index} |->
            IF i = index THEN t + ExhaustionResetMs ELSE timers[i]]

(***************************************************************************)
(* generateContentWithFallback ("complete").  The frame of a call:         *)
(*   pc        "idle" | "awaitProvider" | "backoff" | "returned" | "raised" *)
(*   attempt   the outer loop's counter (0-based)                          *)
(*   model     position in the Model Chain of the call awaited (1-based)   *)
(*   keyIndex  the credential of this outer attempt                        *)
(*   lastError, value (the text returned), wakeAt (end of the backoff)     *)
(* and, recorded for the claims:                                           *)
(*   text            response.text of the provider call that resolved      *)
(*   calls           provider calls issued so far by this call             *)
(*   attemptKeys     the credential of each outer attempt so far           *)
(*   attemptCalls    provider calls issued so far by this outer attempt    *)
(*   attemptKeySet   the credentials those calls were issued on            *)
(*   lastFailure     the failure of the latest provider call that failed   *)
(*   decision        what the catch block decided for it                   *)
(*   startExhausted  exhaustedKeys when the call started                   *)
(*   startCursor     currentKeyIndex when the call started                 *)
(*   sawAvail        a provider call was issued on a credential that was   *)
(*                   not exhausted at that moment                          *)
(*   preAvailKeys    credentials called before sawAvail became true        *)
(*   waits           the delay of each backoff wait started so far         *)
(*   failedAt        the time of the latest provider call that failed      *)
(*   failedCursor    the cursor at that failure                            *)
(***************************************************************************)
IdleCall ==
  [pc |-> "idle", attempt |-> 0, model |-> 0, keyIndex |-> 0, lastError |-> NoError,
   value |-> <<>>, wakeAt |-> 0, text |-> <<>>, calls |-> 0, attemptKeys |-> <<>>,
   attemptCalls |-> 0, attemptKeySet |-> {}, lastFailure |-> NoError, decision |-> "",
   startExhausted |-> {}, startCursor |-> 0,
   sawAvail |-> FALSE, preAvailKeys |-> {}, waits |-> <<>>,
   failedAt |-> 0, failedCursor |-> 0]

\* generateContent({model, contents: prompt}) is issued with credential k
Issued(frame, k, exhausted) ==
  [frame EXCEPT !.calls = @ + 1,
                !.attemptCalls = @ + 1,
                !.attemptKeySet = @ \cup {k},
                !.sawAvail = @ \/ (k \notin exhausted),
                !.preAvailKeys = IF frame.sawAvail \/ k \notin exhausted THEN @ ELSE @ \cup {k}]

\* the head of an outer attempt without line 82: the cursor stays where the
\* scan of an earlier attempt left it
BeginAttemptKeepingCursor(r, a, frame) ==
  LET keyIndex == getNextAvailableKeyIndex(currentKeyIndex, exhaustedKeys, numKeys)[1]
  IN /\ currentKeyIndex' = IF a = 0 THEN keyIndex ELSE currentKeyIndex
     /\ call' = [call EXCEPT ![r] =
                   Issued([frame EXCEPT !.pc = "awaitProvider", !.attempt = a, !.model = 1,
                                        !.keyIndex = keyIndex,
                                        !.attemptKeys = Append(@, keyIndex),
                                        !.attemptCalls = 0, !.attemptKeySet = {}],
                          keyIndex, exhaustedKeys)]
     /\ UNCHANGED <<keys, exhaustedKeys, exhaustionTimers>>

\* The head of one outer attempt: pick the credential, move the cursor to it,
\* and issue the provider call with the first model.
BeginAttempt(r, a, frame) ==
  LET keyIndex == getNextAvailableKeyIndex(currentKeyIndex, exhaustedKeys, numKeys)[1]
  IN /\ currentKeyIndex' = keyIndex
     /\ call' = [call EXCEPT ![r] =
                   Issued([frame EXCEPT !.pc = "awaitProvider", !.attempt = a, !.model = 1,
                                        !.keyIndex = keyIndex,
                                        !.attemptKeys = Append(@, keyIndex),
                                        !.attemptCalls = 0, !.attemptKeySet = {}],
                          keyIndex, exhaustedKeys)]
     /\ UNCHANGED <<keys, exhaustedKeys, exhaustionTimers>>

\* Entry of generateContentWithFallback(prompt), up to its first await.
\* earlier: the prompts of the complete calls made before in the same request.
BeginComplete(r, prompt, earlier) ==
  /\ BeginAttempt(r, 0, [IdleCall EXCEPT !.startExhausted = exhaustedKeys,
                                          !.startCursor = currentKeyIndex])
  /\ completeLog' = [completeLog EXCEPT ![r] = Append(earlier, prompt)]
  /\ UNCHANGED markedAt

\* response.text as it is
RawText(text) == text

\* response.text || 'Generated summary (no text returned)'
TextOrPlaceholder(text) == OrElse(text, NoTextPlaceholder)

\* a success that moves the cursor on to the next credential
ProviderResolvesAdvancing(r, text) ==
  /\ call[r].pc = "awaitProvider"
  /\ call' = [call EXCEPT ![r].pc = "returned",
                          ![r].value = TextOrPlaceholder(text),
                          ![r].text = text]
  /\ currentKeyIndex' = (call[r].keyIndex + 1) % numKeys
  /\ UNCHANGED <<keys, exhaustedKeys, exhaustionTimers, markedAt, completeLog>>

\* The awaited generateContent resolves: the text is returned.
ProviderResolves(r, text) ==
  /\ call[r].pc = "awaitProvider"
  /\ call' = [call EXCEPT ![r].pc = "returned",
                          ![r].value = TextOrPlaceholder(text),
                          ![r].text = text]
  /\ UNCHANGED <<gatewayVars, markedAt, completeLog>>

\* the catch block retrying a failure of no class with the next attempt
CatchDecisionRetryingAll(error, exhaustedAfter) ==
  IF IsQuotaError(error)
    THEN IF \E i \in KeyIndices : i \notin exhaustedAfter
           THEN "break" ELSE "continue"
  ELSE IF IsModelOrServerError(error) THEN "continue"
  ELSE "break"

\* the catch block leaving the model loop at every quota failure
CatchDecisionRotatingAlways(error, exhaustedAfter) ==
  IF IsQuotaError(error) THEN "break"
  ELSE IF IsModelOrServerError(error) THEN "continue"
  ELSE IF IsInvalidKeyError(error) THEN "break"
  ELSE "throw"

\* What the catch block decides for a failure:
\* "continue" (next model), "break" (leave the model loop) or "throw".
CatchDecision(error, exhaustedAfter) ==
  IF IsQuotaError(error)
    THEN IF \E i \in KeyIndices : i \notin exhaustedAfter   \* hasOtherKeys
           THEN "break" ELSE "continue"
  ELSE IF IsModelOrServerError(error) THEN "continue"
  ELSE IF IsInvalidKeyError(error) THEN "break"
  ELSE "throw"

\* lastError as the first failure of the call
KeepFirstError(frame, error) ==
  IF frame.lastError = NoError THEN [frame EXCEPT !.lastError = error] ELSE frame

\* lastError = error
RecordError(frame, error) == [frame EXCEPT !.lastError = error]

\* the catch block marking this.currentKeyIndex instead of the call's keyIndex
ProviderRejectsMarkingCursor(r, error, jitter) ==
  /\ call[r].pc = "awaitProvider"
  /\ LET f == call[r]
         k == f.keyIndex
         marked == currentKeyIndex
         quota == IsQuotaError(error)
         exhaustedAfter == IF quota THEN markedKeys(marked, exhaustedKeys) ELSE exhaustedKeys
         timersAfter == IF quota THEN markedTimers(marked, exhaustedKeys, exhaustionTimers, now)
                                 ELSE exhaustionTimers
         decision == CatchDecision(error, exhaustedAfter)
         g == [RecordError(f, error) EXCEPT !.lastFailure = error, !.decision = decision,
                                            !.failedAt = now,
                                            !.failedCursor = currentKeyIndex]
     IN /\ exhaustedKeys' = exhaustedAfter
        /\ exhaustionTimers' = timersAfter
        /\ markedAt' = IF quota /\ marked \notin exhaustedKeys
                         THEN [i \in (DOMAIN markedAt) \cup {marked} |->
                                 IF i = marked THEN now ELSE markedAt[i]]
                         ELSE markedAt
        /\ UNCHANGED <<keys, currentKeyIndex, completeLog>>
        /\ call' = [call EXCEPT ![r] =
             IF decision = "throw"
               THEN [g EXCEPT !.pc = "raised"]
             ELSE IF decision = "continue" /\ f.model < Len(models)
               THEN Issued([g EXCEPT !.model = f.model + 1], k, exhaustedAfter)
             ELSE IF f.attempt < maxGlobalRetries - 1
               THEN [g EXCEPT !.pc = "backoff", !.wakeAt = now + BackoffBaseMs + jitter,
                              !.waits = Append(@, BackoffBaseMs + jitter)]
             ELSE [g EXCEPT !.pc = "raised"]]      \* throw lastError

\* The awaited generateContent rejects: the catch block, then on to the next
\* await (the next model's call, or the backoff wait) or to the throw.
ProviderRejects(r, error, jitter) ==
  /\ call[r].pc = "awaitProvider"
  /\ LET f == call[r]
         k == f.keyIndex
         quota == IsQuotaError(error)
         exhaustedAfter == IF quota THEN markedKeys(k, exhaustedKeys) ELSE exhaustedKeys
         timersAfter == IF quota THEN markedTimers(k, exhaustedKeys, exhaustionTimers, now)
                                 ELSE exhaustionTimers
         decision == CatchDecision(error, exhaustedAfter)
         g == [RecordError(f, error) EXCEPT !.lastFailure = error, !.decision = decision,
                                            !.failedAt = now,
                                            !.failedCursor = currentKeyIndex]
     IN /\ exhaustedKeys' = exhaustedAfter
        /\ exhaustionTimers' = timersAfter
        /\ markedAt' = IF quota /\ k \notin exhaustedKeys
                         THEN [i \in (DOMAIN markedAt) \cup {k} |->
                                 IF i = k THEN now ELSE markedAt[i]]
                         ELSE markedAt
        /\ UNCHANGED <<keys, currentKeyIndex, completeLog>>
        /\ call' = [call EXCEPT ![r] =
             IF decision = "throw"
               THEN [g EXCEPT !.pc = "raised"]
             ELSE IF decision = "continue" /\ f.model < Len(models)
               THEN Issued([g EXCEPT !.model = f.model + 1], k, exhaustedAfter)
             ELSE IF f.attempt < maxGlobalRetries - 1
               THEN [g EXCEPT !.pc = "backoff", !.wakeAt = now + BackoffBaseMs + jitter,
                              !.waits = Append(@, BackoffBaseMs + jitter)]
             ELSE [g EXCEPT !.pc = "raised"]]      \* throw lastError

\* The backoff wait is over: the next outer attempt.
BackoffElapsed(r) ==
  /\ call[r].pc = "backoff"
  /\ BeginAttempt(r, call[r].attempt + 1, call[r])
  /\ UNCHANGED <<markedAt, completeLog>>

\* the timer callback sending the cursor back to the first credential
TimerFiresResettingCursor(index) ==
  /\ index \in DOMAIN exhaustionTimers
  /\ exhaustedKeys' = exhaustedKeys \ {index}
  /\ exhaustionTimers' = [i \in (DOMAIN exhaustionTimers) \ {index} |-> exhaustionTimers[i]]
  /\ markedAt' = [i \in (DOMAIN markedAt) \ {index} |-> markedAt[i]]
  /\ currentKeyIndex' = 0
  /\ UNCHANGED <<keys, call, completeLog>>

\* the timer callback deleting the exhaustion flag only
TimerFiresKeepingEntry(index) ==
  /\ index \in DOMAIN exhaustionTimers
  /\ index \in exhaustedKeys
  /\ exhaustedKeys' = exhaustedKeys \ {index}
  /\ UNCHANGED <<keys, currentKeyIndex, call, completeLog, exhaustionTimers, markedAt>>

\* The recovery timer armed by markKeyAsExhausted(index) fires.
TimerFires(index) ==
  /\ index \in DOMAIN exhaustionTimers
  /\ exhaustedKeys' = exhaustedKeys \ {index}
  /\ exhaustionTimers' = [i \in (DOMAIN exhaustionTimers) \ {index} |-> exhaustionTimers[i]]
  /\ markedAt' = [i \in (DOMAIN markedAt) \ {index} |-> markedAt[i]]
  /\ UNCHANGED <<keys, currentKeyIndex, call, completeLog>>

(***************************************************************************)
(* The Hierarchical Summarizer: messages and options.                      *)
(* A message is {username?, firstName?, content}; its timestamp is never   *)
(* read by the summarizer and is left out.  The messages of the model are  *)
(* those of MessagePool, and a message list is the sequence of its         *)
(* messages' indices in the pool.                                          *)
(***************************************************************************)
Msg(u, f, c) == [username |-> u, firstName |-> f, content |-> c]

MessagePool ==
  << Msg(<<"al_ice">>, <<"Alice">>, <<"hello", "world">>),
     Msg(<<>>, <<"Bob">>, <<"costs", "$", "$", "5">>),
     Msg(<<>>, <<>>, <<"$", "&", "it", "$", Apostrophe, "s">>) >>

CHUNK_SIZE == 900
LargeSetThreshold == 1000

\* the list of length n that repeats the pattern pat
MakeList(n, pat) == [i \in 1..n |-> pat[((i - 1) % Len(pat)) + 1]]

SmallLists == UNION { [1..n -> 1..Len(MessagePool)] : n \in 0..MaxSmallLen }

BigLengths ==
  { CHUNK_SIZE + 1, LargeSetThreshold, LargeSetThreshold + 1,
    2 * CHUNK_SIZE, 2 * CHUNK_SIZE + 1 }

BigLists == { MakeList(n, <<1, 2, 3, 2, 1, 3, 3>>) : n \in BigLengths }

\* options: {customPrompt?, summaryStyle?}; absent options are both fields empty
Opt(c, st) == [customPrompt |-> c, summaryStyle |-> st]

Placeholder == "{{messages}}"

CustomPrompts ==
  { <<"Recap:", Placeholder, "Thanks">>,
    <<"Recap", "please">>,
    <<Placeholder, "again:", Placeholder>> }

Styles == { "", "default", "detailed", "brief", "bullet", "timeline", "haiku" }

AllOptions ==
  { Opt(<<>>, st) : st \in Styles } \cup
  { Opt(c, "bullet") : c \in CustomPrompts }

BigOptions ==
  { Opt(<<>>, ""), Opt(<<>>, "brief"),
    Opt(<<"Recap:", Placeholder, "Thanks">>, "timeline") }

SummarizeInputs == (SmallLists \X AllOptions) \cup (BigLists \X BigOptions)

(***************************************************************************)
(* String.prototype.replace(pattern, replacement) with a string pattern:   *)
(* the first occurrence only, and in the replacement "$$" is "$", "$&" the *)
(* matched text, "$`" the text before the match and "$'" the text after    *)
(* it ("$1".. and "$<" stay as written: a string pattern has no captures). *)
(***************************************************************************)
\* the first index of the run of "$" tokens that ends at i
RECURSIVE DollarRunStart(_, _)
DollarRunStart(s, i) ==
  IF i > 1 /\ s[i - 1] = "$" THEN DollarRunStart(s, i - 1) ELSE i

\* s[i] is a "$" at which the left-to-right scan of the replacement stands
DollarHead(s, i) == s[i] = "$" /\ (i - DollarRunStart(s, i)) % 2 = 0

\* what position i of the replacement contributes to the result
SubstitutionPiece(rep, i, matched, before, after) ==
  IF rep[i] = "$"
    THEN IF ~DollarHead(rep, i) THEN <<>>               \* the second "$" of "$$"
         ELSE IF i = Len(rep) THEN <<"$">>
         ELSE IF rep[i + 1] = "$" THEN <<"$">>
         ELSE IF rep[i + 1] = "&" THEN matched
         ELSE IF rep[i + 1] = Backquote THEN before
         ELSE IF rep[i + 1] = Apostrophe THEN after
         ELSE <<"$">>
  ELSE IF rep[i] \in {"&", Backquote, Apostrophe} /\ i > 1 /\ rep[i - 1] = "$" /\ DollarHead(rep, i - 1)
    THEN <<>>                                            \* taken by the "$" before it
  ELSE <<rep[i]>>

GetSubstitution(rep, matched, before, after) ==
  Join([i \in 1..Len(rep) |-> SubstitutionPiece(rep, i, matched, before, after)], <<>>)

Replace(template, pattern, replacement) ==
  IF ~Includes(template, pattern) THEN template
  ELSE LET k == Min({ j \in 1..Len(template) : template[j] = pattern })
           before == SubSeq(template, 1, k - 1)
           after == SubSeq(template, k + 1, Len(template))
       IN before \o GetSubstitution(replacement, <<pattern>>, before, after) \o after

(***************************************************************************)
(* Prompt construction.                                                    *)
(***************************************************************************)
DetailedClause == "Provide a detailed, comprehensive summary. Include all important points, context, and nuances. Keep the summary under 500 words."
BriefClause == "Provide a very brief summary. Focus only on the most critical points. Keep the summary under 150 words."
BulletClause == "Provide a summary using bullet points. Each bullet should be concise and clear. Keep the summary under 300 words."
TimelineClause == "Provide a chronological summary, organizing events and discussions in the order they occurred. Keep the summary under 400 words."
DefaultClause == "Provide a concise, well-structured summary. Keep the summary under 300 words and use bullet points if helpful."

\* getStyleInstructions without its case for 'brief'
getStyleInstructionsBriefless(style) ==
  CASE style = "detailed" -> DetailedClause
    [] style = "bullet" -> BulletClause
    [] style = "timeline" -> TimelineClause
    [] OTHER -> DefaultClause

getStyleInstructions(style) ==
  CASE style = "detailed" -> DetailedClause
    [] style = "brief" -> BriefClause
    [] style = "bullet" -> BulletClause
    [] style = "timeline" -> TimelineClause
    [] OTHER -> DefaultClause

\* options?.summaryStyle || 'default'
StyleOrDefault(options) == IF options.summaryStyle = "" THEN "default" ELSE options.summaryStyle

\* msg.username ? `@${msg.username}` : msg.firstName || 'Unknown'
UserOf(id) ==
  LET msg == MessagePool[id] IN
  IF Truthy(msg.username) THEN <<"@">> \o msg.username ELSE OrElse(msg.firstName, <<"Unknown">>)

\* the rendered line numbered from 0
RenderedLineZeroBased(id, i) ==
  <<ToString(i - 1), ". ">> \o UserOf(id) \o <<": ">> \o MessagePool[id].content

\* `${idx + 1}. ${user}: ${content}`, idx being 0-based in the code and i = idx + 1 here
RenderedLine(id, i) ==
  <<ToString(i), ". ">> \o UserOf(id) \o <<": ">> \o MessagePool[id].content

\* messages.map(...).join('\n\n')
FormatMessages(messages) ==
  Join([i \in 1..Len(messages) |-> RenderedLine(messages[i], i)], <<"\n\n">>)

ChunkPromptHead == "You are a helpful assistant that summarizes Telegram group chat conversations."
ChunkPromptRules == "Focus on: [topics, decisions, announcements, open questions]. CRITICAL: [user naming rules]. IMPORTANT: [markdown rules]. Conversation:"
ChunkPromptCue == "Summary:"

\* the prompt summarizeChunk passes to generateContentWithFallback
\* (its guard for an empty list is not reached: no caller passes one)
summarizeChunkPrompt(messages, options) ==
  LET formattedMessages == FormatMessages(messages)
  IN IF Truthy(options.customPrompt)
       THEN Replace(options.customPrompt, Placeholder, formattedMessages)
       ELSE <<ChunkPromptHead, getStyleInstructions(StyleOrDefault(options)), ChunkPromptRules>>
            \o formattedMessages \o <<ChunkPromptCue>>

\* slice with its end taken inclusively
SliceInclusive(s, from, to) == SubSeq(s, from + 1, IF to + 1 < Len(s) THEN to + 1 ELSE Len(s))

\* Array.prototype.slice(from, to): 0-based, to exclusive and clamped to the length
Slice(s, from, to) == SubSeq(s, from + 1, IF to < Len(s) THEN to ELSE Len(s))

\* for (let i = 0; i < messages.length; i += chunkSize)
\*   chunks.push(messages.slice(i, i + chunkSize))
RECURSIVE ChunkLoop(_, _, _, _)
ChunkLoop(messages, chunkSize, i, chunks) ==
  IF i < Len(messages)
    THEN ChunkLoop(messages, chunkSize, i + chunkSize,
                   Append(chunks, Slice(messages, i, i + chunkSize)))
    ELSE chunks

SplitIntoChunks(messages, chunkSize) == ChunkLoop(messages, chunkSize, 0, <<>>)

\* `[Chunk ${i + 1}/${chunks.length} - ${chunk.length} messages]:\n${chunkSummary}`
\* the label numbering chunks from the loop index (i instead of i + 1)
LabeledSummaryZeroBased(i, count, size, chunkSummary) ==
  <<"[Chunk ", ToString(i - 1), "/", ToString(count), " - ", ToString(size), " messages]:\n">>
  \o chunkSummary

LabeledSummary(i, count, size, chunkSummary) ==
  <<"[Chunk ", ToString(i), "/", ToString(count), " - ", ToString(size), " messages]:\n">>
  \o chunkSummary

MergeSeparator == <<"\n\n---\n\n">>

MergePromptHead == "You are a helpful assistant that creates a comprehensive summary from multiple partial summaries of a Telegram group chat."
MergePromptRules == " total messages. Please create a unified, coherent summary that: [...]. CRITICAL: [user naming rules]. Partial Summaries:"
MergePromptCue == "Unified Summary:"

\* mergePrompt with the total taken as count full chunks
mergePromptFullChunks(chunkSummaries, count, totalMessages, options) ==
  <<MergePromptHead, getStyleInstructions(StyleOrDefault(options)),
    "You have received ", ToString(count), " partial summaries covering ",
    ToString(count * CHUNK_SIZE), MergePromptRules>>
  \o Join(chunkSummaries, MergeSeparator) \o <<MergePromptCue>>

mergePrompt(chunkSummaries, count, totalMessages, options) ==
  <<MergePromptHead, getStyleInstructions(StyleOrDefault(options)),
    "You have received ", ToString(count), " partial summaries covering ",
    ToString(totalMessages), MergePromptRules>>
  \o Join(chunkSummaries, MergeSeparator) \o <<MergePromptCue>>

NoMessagesSentinel == <<"No messages found in the specified time range.">>

\* the fallback of the merge result: result || `Summary of ... chunks)`
MergeFallback(totalMessages, count) ==
  <<"Summary of ", ToString(totalMessages), " messages (processed in ",
    ToString(count), " chunks)">>

(***************************************************************************)
(* summarizeMessages: the rewrapping of a failure of the single-pass path. *)
(***************************************************************************)
InvalidKeyMessage == "Invalid API key. Please check your Gemini API key and ensure it's correct. You can update it using /update_api_key."
PermissionMessage == "Permission denied. Your API key may not have access to the Gemini API. Please check your API key permissions."
QuotaMessage == "API quota exceeded. All provided API keys have reached their rate limit. Please try again later or add more keys using /update_api_key."
TimeoutMessage == "Request timeout. The API request took too long. Please try again."
NetworkMessage == "Network error. Could not connect to the Gemini API. Please check your internet connection and try again."

\* the rewrapping without its timeout kind
RewrapWithoutTimeout(error) ==
  LET m == errorMessage(error)
  IN IF Includes(m, "API_KEY_INVALID") \/ Includes(m, "401") \/ Includes(m, "Unauthorized")
       THEN Err(<<InvalidKeyMessage>>)
     ELSE IF Includes(m, "PERMISSION_DENIED") \/ Includes(m, "403")
       THEN Err(<<PermissionMessage>>)
     ELSE IF Includes(m, "QUOTA_EXCEEDED") \/ Includes(m, "429") \/ Includes(m, "RESOURCE_EXHAUSTED")
       THEN Err(<<QuotaMessage>>)
     ELSE IF Includes(m, "network") \/ Includes(m, "ECONNREFUSED") \/ Includes(m, "ENOTFOUND")
       THEN Err(<<NetworkMessage>>)
     ELSE error

Rewrap(error) ==
  LET m == errorMessage(error)
  IN IF Includes(m, "API_KEY_INVALID") \/ Includes(m, "401") \/ Includes(m, "Unauthorized")
       THEN Err(<<InvalidKeyMessage>>)
     ELSE IF Includes(m, "PERMISSION_DENIED") \/ Includes(m, "403")
       THEN Err(<<PermissionMessage>>)
     ELSE IF Includes(m, "QUOTA_EXCEEDED") \/ Includes(m, "429") \/ Includes(m, "RESOURCE_EXHAUSTED")
       THEN Err(<<QuotaMessage>>)
     ELSE IF Includes(m, "timeout") \/ Includes(m, "TIMEOUT")
       THEN Err(<<TimeoutMessage>>)
     ELSE IF Includes(m, "network") \/ Includes(m, "ECONNREFUSED") \/ Includes(m, "ENOTFOUND")
       THEN Err(<<NetworkMessage>>)
     ELSE error

(***************************************************************************)
(* summarizeMessages ("summarize").  The frame of a call:                  *)
(*   pc      "idle" | "single" (awaiting summarizeChunk on the single-pass *)
(*           path) | "chunks" (awaiting summarizeChunk of chunk i) |       *)
(*           "merge" (awaiting the merge call) | "returned" | "raised"     *)
(*   messages, options, chunks, totalMessages, chunkSummaries              *)
(*   i       index of the chunk in progress (1-based)                      *)
(*   value   the string returned;  error: the error raised                 *)
(***************************************************************************)
IdleSum ==
  [pc |-> "idle", messages |-> <<>>, options |-> Opt(<<>>, ""), chunks |-> <<>>,
   totalMessages |-> 0, chunkSummaries |-> <<>>, i |-> 0, value |-> <<>>,
   error |-> NoError]

SumFinished(r) == sum[r].pc \in {"idle", "returned", "raised"}

\* Route without its guard for the empty list
RouteUnguarded(n) == IF n > LargeSetThreshold THEN "hierarchical" ELSE "single"

\* Route with the threshold taken inclusively
RouteInclusive(n) ==
  IF n = 0 THEN "empty"
  ELSE IF n >= LargeSetThreshold THEN "hierarchical"
  ELSE "single"

\* Route without the hierarchical path
RouteSinglePassOnly(n) == IF n = 0 THEN "empty" ELSE "single"

\* the path summarizeMessages takes for a list of n messages
Route(n) ==
  IF n = 0 THEN "empty"
  ELSE IF n > LargeSetThreshold THEN "hierarchical"
  ELSE "single"

\* summarizeMessages(messages, options), up to its first await
summarizeMessages(r, messages, options) ==
  /\ SumFinished(r)
  /\ call[r].pc = "idle"
  /\ LET f == [IdleSum EXCEPT !.messages = messages, !.options = options]
     IN IF Route(Len(messages)) = "empty"
          THEN /\ sum' = [sum EXCEPT ![r] =
                    [f EXCEPT !.pc = "returned", !.value = NoMessagesSentinel]]
               /\ completeLog' = [completeLog EXCEPT ![r] = <<>>]
               /\ UNCHANGED <<gatewayVars, markedAt, call>>
        ELSE IF Route(Len(messages)) = "hierarchical"
          THEN \* summarizeLargeMessageSet(messages, options, CHUNK_SIZE)
               LET chunks == SplitIntoChunks(messages, CHUNK_SIZE)
               IN /\ sum' = [sum EXCEPT ![r] =
                       [f EXCEPT !.pc = "chunks", !.chunks = chunks,
                                 !.totalMessages = Len(messages), !.i = 1]]
                  /\ BeginComplete(r, summarizeChunkPrompt(chunks[1], options), <<>>)
        ELSE /\ sum' = [sum EXCEPT ![r] = [f EXCEPT !.pc = "single"]]
             /\ BeginComplete(r, summarizeChunkPrompt(messages, options), <<>>)

\* single-pass path: summarizeChunk settles; a failure is rewrapped
SinglePassSettles(r) ==
  /\ sum[r].pc = "single"
  /\ call[r].pc \in {"returned", "raised"}
  /\ sum' = [sum EXCEPT ![r] =
       IF call[r].pc = "returned"
         THEN [@ EXCEPT !.pc = "returned", !.value = call[r].value]
         ELSE [@ EXCEPT !.pc = "raised", !.error = Rewrap(call[r].lastError)]]
  /\ call' = [call EXCEPT ![r] = IdleCall]
  /\ UNCHANGED <<gatewayVars, markedAt, completeLog>>

\* the chunk loop under the error rewrapping of the single-pass path
ChunkFailsRewrapping(r) ==
  /\ sum[r].pc = "chunks"
  /\ call[r].pc = "raised"
  /\ sum' = [sum EXCEPT ![r].pc = "raised", ![r].error = Rewrap(call[r].lastError)]
  /\ call' = [call EXCEPT ![r] = IdleCall]
  /\ UNCHANGED <<gatewayVars, markedAt, completeLog>>

\* hierarchical path: summarizeChunk of chunk i raises; nothing catches it
ChunkFails(r) ==
  /\ sum[r].pc = "chunks"
  /\ call[r].pc = "raised"
  /\ sum' = [sum EXCEPT ![r].pc = "raised", ![r].error = call[r].lastError]
  /\ call' = [call EXCEPT ![r] = IdleCall]
  /\ UNCHANGED <<gatewayVars, markedAt, completeLog>>

\* the chunk loop stopping one chunk short (i < chunks.length - 1)
ChunkSettlesMergingEarly(r) ==
  /\ sum[r].pc = "chunks"
  /\ call[r].pc = "returned"
  /\ LET f == sum[r]
         count == Len(f.chunks)
         summaries == Append(f.chunkSummaries,
                        LabeledSummary(f.i, count, Len(f.chunks[f.i]), call[r].value))
         g == [f EXCEPT !.chunkSummaries = summaries]
     IN IF f.i < count - 1
          THEN /\ sum' = [sum EXCEPT ![r] = [g EXCEPT !.i = f.i + 1]]
               /\ BeginComplete(r, summarizeChunkPrompt(f.chunks[f.i + 1], f.options),
                                completeLog[r])
        ELSE IF Len(summaries) = 1
          THEN /\ sum' = [sum EXCEPT ![r] =
                    [g EXCEPT !.pc = "returned", !.value = summaries[1]]]
               /\ call' = [call EXCEPT ![r] = IdleCall]
               /\ UNCHANGED <<gatewayVars, markedAt, completeLog>>
        ELSE /\ sum' = [sum EXCEPT ![r] = [g EXCEPT !.pc = "merge"]]
             /\ BeginComplete(r, mergePrompt(summaries, count, f.totalMessages, f.options),
                              completeLog[r])

\* hierarchical path: summarizeChunk of chunk i returns; on to the next
\* chunk, to the merge call, or (one chunk only) to the return
ChunkSettles(r) ==
  /\ sum[r].pc = "chunks"
  /\ call[r].pc = "returned"
  /\ LET f == sum[r]
         count == Len(f.chunks)
         summaries == Append(f.chunkSummaries,
                        LabeledSummary(f.i, count, Len(f.chunks[f.i]), call[r].value))
         g == [f EXCEPT !.chunkSummaries = summaries]
     IN IF f.i < count
          THEN /\ sum' = [sum EXCEPT ![r] = [g EXCEPT !.i = f.i + 1]]
               /\ BeginComplete(r, summarizeChunkPrompt(f.chunks[f.i + 1], f.options),
                                completeLog[r])
        ELSE IF Len(summaries) = 1
          THEN /\ sum' = [sum EXCEPT ![r] =
                    [g EXCEPT !.pc = "returned", !.value = summaries[1]]]
               /\ call' = [call EXCEPT ![r] = IdleCall]
               /\ UNCHANGED <<gatewayVars, markedAt, completeLog>>
        ELSE /\ sum' = [sum EXCEPT ![r] = [g EXCEPT !.pc = "merge"]]
             /\ BeginComplete(r, mergePrompt(summaries, count, f.totalMessages, f.options),
                              completeLog[r])

\* hierarchical path: the merge call settles; its failure is not caught
MergeSettles(r) ==
  /\ sum[r].pc = "merge"
  /\ call[r].pc \in {"returned", "raised"}
  /\ sum' = [sum EXCEPT ![r] =
       IF call[r].pc = "returned"
         THEN [@ EXCEPT !.pc = "returned",
                        !.value = OrElse(call[r].value,
                                         MergeFallback(@.totalMessages, Len(@.chunks)))]
         ELSE [@ EXCEPT !.pc = "raised", !.error = call[r].lastError]]
  /\ call' = [call EXCEPT ![r] = IdleCall]
  /\ UNCHANGED <<gatewayVars, markedAt, completeLog>>

(***************************************************************************)
(* The provider, as the Gateway sees it: a text (possibly empty or         *)
(* missing) or a failure whose message holds the strings the code matches. *)
(***************************************************************************)
ProviderTexts == { <<>>, <<"Summary", "one">>, <<"Summary", "two">> }

QuotaFailure == Err(<<"429", "Too Many Requests">>)
QuotaServerFailure == Err(<<"RESOURCE_EXHAUSTED", "503">>)
NotFoundFailure == Err(<<"models/x", "NOT_FOUND">>)
ServerFailure == Err(<<"500", "Internal">>)
InvalidKeyFailure == Err(<<"API_KEY_INVALID">>)
DeniedFailure == Err(<<"PERMISSION_DENIED", "403">>)
BlankFailure == Err(<<>>)

ProviderErrors ==
  { QuotaFailure, QuotaServerFailure, NotFoundFailure, ServerFailure,
    InvalidKeyFailure, DeniedFailure, BlankFailure }

Prompts == { <<"Summarize", "this">> }

(***************************************************************************)
(* Spec: one Gateway and complete calls made on it one after the other.    *)
(* The clock is not modelled here: a recovery timer may fire at any moment *)
(* after it was armed, and a backoff wait may end at any moment.           *)
(***************************************************************************)
Finished(r) == call[r].pc \in {"idle", "returned", "raised"}

Init ==
  /\ \E n \in 1..MaxKeys : keys = Constructor(n)
  /\ currentKeyIndex = 0
  /\ exhaustedKeys = {}
  /\ exhaustionTimers = <<>>
  /\ now = 0
  /\ markedAt = <<>>
  /\ call = [r \in Requests |-> IdleCall]
  /\ sum = [r \in Requests |-> IdleSum]
  /\ completeLog = [r \in Requests |-> <<>>]
  /\ failures = 0
  /\ started = 0

Complete ==
  /\ started < MaxCalls
  /\ Finished(1)
  /\ \E p \in Prompts : BeginComplete(1, p, <<>>)
  /\ started' = started + 1
  /\ UNCHANGED <<now, sum, failures>>

Resolve ==
  /\ \E t \in ProviderTexts : ProviderResolves(1, t)
  /\ UNCHANGED <<now, sum, failures, started>>

Reject ==
  /\ \E e \in ProviderErrors : ProviderRejects(1, e, 0)
  /\ UNCHANGED <<now, sum, failures, started>>

Backoff ==
  /\ BackoffElapsed(1)
  /\ UNCHANGED <<now, sum, failures, started>>

Recover ==
  /\ \E i \in KeyIndices : TimerFires(i)
  /\ UNCHANGED <<now, sum, failures, started>>

Next == Complete \/ Resolve \/ Reject \/ Backoff \/ Recover

Spec == Init /\ [][Next]_vars

\* SpecFair: Spec where every provider call settles (it resolves or rejects)
\* and every backoff wait ends (its setTimeout fires).
SpecFair == Init /\ [][Next]_vars /\ WF_vars(Resolve \/ Reject) /\ WF_vars(Backoff)

(***************************************************************************)
(* SpecSum: one summarize call on a Gateway in a state it can be in after  *)
(* earlier calls, with at most MaxFailures provider failures.              *)
(***************************************************************************)
\* <<number of keys, cursor, exhausted keys>>
SumGateways == { <<1, 0, {}>>, <<2, 0, {}>>, <<2, 1, {0}>> }

SumErrors == { QuotaFailure, NotFoundFailure, InvalidKeyFailure, DeniedFailure }

SumTexts == { <<>>, <<"Summary", "one">> }

InitSum ==
  /\ \E g \in SumGateways :
       /\ keys = Constructor(g[1])
       /\ currentKeyIndex = g[2]
       /\ exhaustedKeys = g[3]
       /\ exhaustionTimers = [i \in g[3] |-> ExhaustionResetMs]
       /\ markedAt = [i \in g[3] |-> 0]
  /\ now = 0
  /\ call = [r \in Requests |-> IdleCall]
  /\ sum = [r \in Requests |-> IdleSum]
  /\ completeLog = [r \in Requests |-> <<>>]
  /\ failures = 0
  /\ started = 0

Summarize ==
  /\ started = 0
  /\ \E input \in SummarizeInputs : summarizeMessages(1, input[1], input[2])
  /\ started' = 1
  /\ UNCHANGED <<now, failures>>

SumResolve ==
  /\ \E t \in SumTexts : ProviderResolves(1, t)
  /\ UNCHANGED <<now, sum, failures, started>>

SumReject ==
  /\ failures < MaxFailures
  /\ \E e \in SumErrors : ProviderRejects(1, e, 0)
  /\ failures' = failures + 1
  /\ UNCHANGED <<now, sum, started>>

SumBackoff ==
  /\ BackoffElapsed(1)
  /\ UNCHANGED <<now, sum, failures, started>>

SumRecover ==
  /\ \E i \in KeyIndices : TimerFires(i)
  /\ UNCHANGED <<now, sum, failures, started>>

SumSingle == SinglePassSettles(1) /\ UNCHANGED <<now, failures, started>>
SumChunkFails == ChunkFails(1) /\ UNCHANGED <<now, failures, started>>
SumChunk == ChunkSettles(1) /\ UNCHANGED <<now, failures, started>>
SumMerge == MergeSettles(1) /\ UNCHANGED <<now, failures, started>>

NextSum ==
  \/ Summarize \/ SumResolve \/ SumReject \/ SumBackoff \/ SumRecover
  \/ SumSingle \/ SumChunkFails \/ SumChunk \/ SumMerge

SpecSum == InitSum /\ [][NextSum]_vars

(***************************************************************************)
(* SpecWrap: one summarize call on the single-pass path, the provider      *)
(* failing in any of the ways of WrapErrors as often as it likes.          *)
(***************************************************************************)
WrapErrors ==
  { QuotaFailure, NotFoundFailure, InvalidKeyFailure, DeniedFailure, BlankFailure,
    Err(<<"401", "Unauthorized">>), Err(<<"PERMISSION_DENIED">>),
    Err(<<"Request", "timeout">>), Err(<<"DEADLINE", "TIMEOUT">>),
    Err(<<"network", "unreachable">>), Err(<<"connect", "ECONNREFUSED">>),
    Err(<<"getaddrinfo", "ENOTFOUND">>), Err(<<"400", "Bad Request">>) }

WrapInputs == { <<1>>, <<2, 3>> } \X { Opt(<<>>, "") }

WrapSummarize ==
  /\ started = 0
  /\ \E input \in WrapInputs : summarizeMessages(1, input[1], input[2])
  /\ started' = 1
  /\ UNCHANGED <<now, failures>>

WrapResolve ==
  /\ ProviderResolves(1, <<"Summary", "one">>)
  /\ UNCHANGED <<now, sum, failures, started>>

WrapReject ==
  /\ \E e \in WrapErrors : ProviderRejects(1, e, 0)
  /\ UNCHANGED <<now, sum, failures, started>>

WrapBackoff ==
  /\ BackoffElapsed(1)
  /\ UNCHANGED <<now, sum, failures, started>>

WrapRecover ==
  /\ \E i \in KeyIndices : TimerFires(i)
  /\ UNCHANGED <<now, sum, failures, started>>

WrapSingle == SinglePassSettles(1) /\ UNCHANGED <<now, failures, started>>

NextWrap ==
  WrapSummarize \/ WrapResolve \/ WrapReject \/ WrapBackoff \/ WrapRecover \/ WrapSingle

SpecWrap == InitSum /\ [][NextWrap]_vars

(***************************************************************************)
(* SpecConc: two complete calls in flight on one Gateway, interleaved at   *)
(* their awaits; the recovery timers fire at any moment.                   *)
(***************************************************************************)
MaxConcFailures == 5    \* provider failures of the two calls together

ConcErrors == { QuotaFailure, NotFoundFailure }

ConcComplete ==
  /\ \E r \in Requests :
       /\ call[r].pc = "idle"
       /\ \E p \in Prompts : BeginComplete(r, p, <<>>)
  /\ UNCHANGED <<now, sum, failures, started>>

ConcResolve ==
  /\ \E r \in Requests : ProviderResolves(r, <<"Summary", "one">>)
  /\ UNCHANGED <<now, sum, failures, started>>

ConcReject ==
  /\ failures < MaxConcFailures
  /\ \E r \in Requests, e \in ConcErrors : ProviderRejects(r, e, 0)
  /\ failures' = failures + 1
  /\ UNCHANGED <<now, sum, started>>

ConcBackoff ==
  /\ \E r \in Requests : BackoffElapsed(r)
  /\ UNCHANGED <<now, sum, failures, started>>

ConcRecover ==
  /\ \E i \in KeyIndices : TimerFires(i)
  /\ UNCHANGED <<now, sum, failures, started>>

NextConc == ConcComplete \/ ConcResolve \/ ConcReject \/ ConcBackoff \/ ConcRecover

SpecConc == Init /\ [][NextConc]_vars

(***************************************************************************)
(* SpecLarge: summarizeLargeMessageSet entered on its own, with lists that *)
(* make no chunk or one chunk of the default size.  summarizeMessages      *)
(* passes it lists of more than 1000 messages only; the routine itself     *)
(* takes any list.                                                         *)
(***************************************************************************)
LargeInputs == SmallLists \X { Opt(<<>>, ""), Opt(<<>>, "brief") }

\* summarizeLargeMessageSet(messages, options, chunkSize), up to its first
\* await: the first chunk's call or, without chunks, the merge call
summarizeLargeMessageSet(r, messages, options, chunkSize) ==
  /\ SumFinished(r)
  /\ call[r].pc = "idle"
  /\ LET chunks == SplitIntoChunks(messages, chunkSize)
         f == [IdleSum EXCEPT !.messages = messages, !.options = options,
                              !.chunks = chunks, !.totalMessages = Len(messages)]
     IN IF Len(chunks) = 0
          THEN /\ sum' = [sum EXCEPT ![r] = [f EXCEPT !.pc = "merge"]]
               /\ BeginComplete(r, mergePrompt(<<>>, 0, 0, options), <<>>)
          ELSE /\ sum' = [sum EXCEPT ![r] = [f EXCEPT !.pc = "chunks", !.i = 1]]
               /\ BeginComplete(r, summarizeChunkPrompt(chunks[1], options), <<>>)

LargeSummarize ==
  /\ started = 0
  /\ \E input \in LargeInputs : summarizeLargeMessageSet(1, input[1], input[2], CHUNK_SIZE)
  /\ started' = 1
  /\ UNCHANGED <<now, failures>>

NextLarge ==
  \/ LargeSummarize \/ SumResolve \/ SumReject \/ SumBackoff \/ SumRecover
  \/ SumChunkFails \/ SumChunk \/ SumMerge

SpecLarge == InitSum /\ [][NextLarge]_vars

(***************************************************************************)
(* SpecMany: one complete call on a Gateway of more credentials than the   *)
(* call has outer attempts.                                                *)
(***************************************************************************)
ManyKeys == 4

ManyErrors == { QuotaFailure, NotFoundFailure }

InitMany ==
  /\ keys = Constructor(ManyKeys)
  /\ currentKeyIndex = 0
  /\ exhaustedKeys = {}
  /\ exhaustionTimers = <<>>
  /\ now = 0
  /\ markedAt = <<>>
  /\ call = [r \in Requests |-> IdleCall]
  /\ sum = [r \in Requests |-> IdleSum]
  /\ completeLog = [r \in Requests |-> <<>>]
  /\ failures = 0
  /\ started = 0

ManyComplete ==
  /\ started = 0
  /\ \E p \in Prompts : BeginComplete(1, p, <<>>)
  /\ started' = 1
  /\ UNCHANGED <<now, sum, failures>>

ManyResolve ==
  /\ ProviderResolves(1, <<"Summary", "one">>)
  /\ UNCHANGED <<now, sum, failures, started>>

ManyReject ==
  /\ \E e \in ManyErrors : ProviderRejects(1, e, 0)
  /\ UNCHANGED <<now, sum, failures, started>>

ManyBackoff ==
  /\ BackoffElapsed(1)
  /\ UNCHANGED <<now, sum, failures, started>>

ManyRecover ==
  /\ \E i \in KeyIndices : TimerFires(i)
  /\ UNCHANGED <<now, sum, failures, started>>

NextMany == ManyComplete \/ ManyResolve \/ ManyReject \/ ManyBackoff \/ ManyRecover

SpecMany == InitMany /\ [][NextMany]_vars

(***************************************************************************)
(* SpecCtor: the constructor on each kind of input, then one complete call *)
(* at a time.  A string is a sequence of tokens: a "raw" token is text     *)
(* that is not JSON, "num" a JSON number, "str" a JSON string literal,     *)
(* "punct" a bracket or a comma.                                           *)
(***************************************************************************)
Tok(t, v) == [t |-> t, v |-> v]

RawKey(k) == << Tok("raw", k) >>

RECURSIVE JsonItems(_, _)
JsonItems(ks, i) ==
  IF i > Len(ks) THEN <<>>
  ELSE (IF i > 1 THEN << Tok("punct", ",") >> ELSE <<>>)
         \o << Tok("str", ks[i]) >> \o JsonItems(ks, i + 1)

\* JSON.stringify of an array of key strings
JsonArray(ks) == << Tok("punct", "[") >> \o JsonItems(ks, 1) \o << Tok("punct", "]") >>

\* JSON.parse(text): a thrown SyntaxError, or the value parsed
JSONParse(text) ==
  LET n == Len(text)
      inner == n - 2
      wellFormed ==
        /\ n >= 2
        /\ text[1] = Tok("punct", "[")
        /\ text[n] = Tok("punct", "]")
        /\ (inner = 0 \/ inner % 2 = 1)
        /\ \A i \in 1..inner :
              IF i % 2 = 1 THEN text[i + 1].t = "str"
                           ELSE text[i + 1] = Tok("punct", ",")
  IN IF n = 1 /\ text[1].t \in {"num", "str"}
       THEN [threw |-> FALSE, isArray |-> FALSE, items |-> <<>>]
     ELSE IF wellFormed
       THEN [threw |-> FALSE, isArray |-> TRUE,
             items |-> [j \in 1..((inner + 1) \div 2) |-> RawKey(text[2 * j].v)]]
     ELSE [threw |-> TRUE, isArray |-> FALSE, items |-> <<>>]

ArrayInput(ks) == [isArray |-> TRUE, items |-> [i \in 1..Len(ks) |-> RawKey(ks[i])], text |-> <<>>]
StringInput(text) == [isArray |-> FALSE, items |-> <<>>, text |-> text]

\* this.keys as the constructor sets it for apiKeyOrKeys
ConstructorFrom(apiKeyOrKeys) ==
  IF apiKeyOrKeys.isArray
    THEN apiKeyOrKeys.items
    ELSE LET parsed == JSONParse(apiKeyOrKeys.text)
         IN IF ~parsed.threw /\ parsed.isArray
              THEN parsed.items
              ELSE << apiKeyOrKeys.text >>

\* this.ais = this.keys.map(key => new GoogleGenAI({ apiKey: key }))
ClientsOf(ks) == [i \in 1..Len(ks) |-> [apiKey |-> ks[i]]]

CtorKeyLists == { <<>>, <<"AIza-a">>, <<"AIza-a", "AIza-b">> }

CtorInputs ==
  { ArrayInput(ks) : ks \in CtorKeyLists }
    \cup { StringInput(JsonArray(ks)) : ks \in CtorKeyLists }
    \cup { StringInput(RawKey("AIza-a")),
           StringInput(<< Tok("num", "42") >>),
           StringInput(<< Tok("punct", "["), Tok("str", "AIza-a") >>),
           StringInput(<<>>) }

\* currentClient is undefined: reading currentClient.models throws in the try
UndefinedClientFailure == Err(<<"Cannot read properties of undefined">>)

InitCtor ==
  /\ \E input \in CtorInputs : keys = ConstructorFrom(input)
  /\ currentKeyIndex = 0
  /\ exhaustedKeys = {}
  /\ exhaustionTimers = <<>>
  /\ now = 0
  /\ markedAt = <<>>
  /\ call = [r \in Requests |-> IdleCall]
  /\ sum = [r \in Requests |-> IdleSum]
  /\ completeLog = [r \in Requests |-> <<>>]
  /\ failures = 0
  /\ started = 0

CtorComplete ==
  /\ started < MaxCalls
  /\ Finished(1)
  /\ \E p \in Prompts : BeginComplete(1, p, <<>>)
  /\ started' = started + 1
  /\ UNCHANGED <<now, sum, failures>>

CtorResolve ==
  /\ call[1].keyIndex \in KeyIndices
  /\ ProviderResolves(1, <<"Summary", "one">>)
  /\ UNCHANGED <<now, sum, failures, started>>

CtorReject ==
  /\ \E e \in (IF call[1].keyIndex \in KeyIndices THEN ManyErrors
                                                   ELSE {UndefinedClientFailure}) :
       ProviderRejects(1, e, 0)
  /\ UNCHANGED <<now, sum, failures, started>>

CtorBackoff ==
  /\ BackoffElapsed(1)
  /\ UNCHANGED <<now, sum, failures, started>>

CtorRecover ==
  /\ \E i \in KeyIndices : TimerFires(i)
  /\ UNCHANGED <<now, sum, failures, started>>

NextCtor == CtorComplete \/ CtorResolve \/ CtorReject \/ CtorBackoff \/ CtorRecover

SpecCtor == InitCtor /\ [][NextCtor]_vars

(***************************************************************************)
(* SpecCallers: the callers of summarizeMessages.  Each fetches the rows   *)
(* of one chat from the message store, filters them and hands the rest to  *)
(* summarizeMessages.  A row is a message of MessagePool; the store of a   *)
(* chat is a list of rows in chronological order.                          *)
(***************************************************************************)
MaxBatch == 10000            \* Math.min(limit, 10000)
ScheduledLimit == 1000       \* getMessagesSinceTimestamp(chatId, since, 1000)

StoredCounts == { 0, 1, LargeSetThreshold + 1, MaxBatch + 1, 12 * CHUNK_SIZE + 1 }

Stores == { MakeList(n, <<1, 2, 3, 2, 1, 3, 3>>) : n \in StoredCounts }

\* ... ORDER BY timestamp ASC LIMIT Math.min(limit, 10000)
getMessagesSince(rows, limit) == SubSeq(rows, 1, Min({Len(rows), limit, MaxBatch}))

\* ... ORDER BY timestamp DESC LIMIT Math.min(count, 10000), reversed
getLastNMessages(rows, count) ==
  LET n == Min({Len(rows), count, MaxBatch})
  IN SubSeq(rows, Len(rows) - n + 1, Len(rows))

\* SELECT ... WHERE timestamp < NOW() - 48 hours: no LIMIT
getMessagesToCleanup(rows) == rows

\* messages.filter(...) on the excluded users of the group's settings
filteredMessages(rows, excluded) == SelectSeq(rows, LAMBDA id : id \notin excluded)

\* messages.filter(msg => msg.content && msg.content.trim().length > 0)
validMessages(rows) == SelectSeq(rows, LAMBDA id : Truthy(MessagePool[id].content))

Exclusions == { {}, {2} }
TldrCounts == { 50, MaxBatch + 1 }

\* the caller hands messages to summarizeMessages unless none is left
HandOver(messages, options) ==
  /\ Len(messages) > 0
  /\ summarizeMessages(1, messages, options)

\* /tldr N
TldrLastN ==
  /\ started = 0
  /\ \E rows \in Stores, count \in TldrCounts, excluded \in Exclusions :
       HandOver(filteredMessages(getLastNMessages(rows, count), excluded), Opt(<<>>, ""))
  /\ started' = 1
  /\ UNCHANGED <<now, failures>>

\* /tldr <period> and /tldr in reply to a message
TldrSince ==
  /\ started = 0
  /\ \E rows \in Stores, excluded \in Exclusions :
       HandOver(filteredMessages(getMessagesSince(rows, MaxBatch), excluded), Opt(<<>>, "brief"))
  /\ started' = 1
  /\ UNCHANGED <<now, failures>>

\* the scheduled summaries
ScheduledSummary ==
  /\ started = 0
  /\ \E rows \in Stores, excluded \in Exclusions :
       HandOver(filteredMessages(getMessagesSince(rows, ScheduledLimit), excluded), Opt(<<>>, ""))
  /\ started' = 1
  /\ UNCHANGED <<now, failures>>

\* summarizeAndCleanupOldMessages, for one chat
CleanupSummary ==
  /\ started = 0
  /\ \E rows \in Stores :
       HandOver(validMessages(getMessagesToCleanup(rows)), Opt(<<>>, ""))
  /\ started' = 1
  /\ UNCHANGED <<now, failures>>

CallersResolve ==
  /\ ProviderResolves(1, <<"Summary", "one">>)
  /\ UNCHANGED <<now, sum, failures, started>>

CallersReject ==
  /\ failures < MaxFailures
  /\ \E e \in { QuotaFailure, DeniedFailure } : ProviderRejects(1, e, 0)
  /\ failures' = failures + 1
  /\ UNCHANGED <<now, sum, started>>

NextCallers ==
  \/ TldrLastN \/ TldrSince \/ ScheduledSummary \/ CleanupSummary
  \/ CallersResolve \/ CallersReject \/ SumBackoff \/ SumRecover
  \/ SumSingle \/ SumChunkFails \/ SumChunk \/ SumMerge

SpecCallers == InitSum /\ [][NextCallers]_vars

(***************************************************************************)
(* SpecTime: the Gateway under a clock.  Time passes in steps of at most   *)
(* TickMs and never passes a pending setTimeout: a recovery timer and a    *)
(* backoff wait fire at the instant they are due.  A provider call takes   *)
(* any amount of time.                                                     *)
(***************************************************************************)
MaxTimedCalls == 1
TickMs == 30000
MaxTimeMs == 90000

\* Math.random() * 2000, sampled
JittersDoubled == {0, 1999}

\* Math.random() * 1000, sampled
Jitters == {0, 999}

TimeErrors == { QuotaFailure, NotFoundFailure, DeniedFailure }
TimeTexts == { <<"Summary", "one">> }

\* the instants at which a pending setTimeout is due
Deadlines ==
  { exhaustionTimers[i] : i \in DOMAIN exhaustionTimers }
    \cup (IF call[1].pc = "backoff" THEN {call[1].wakeAt} ELSE {})

Tick ==
  /\ now < MaxTimeMs
  /\ \A d \in Deadlines : d > now
  /\ now' = Min({now + TickMs} \cup Deadlines)
  /\ UNCHANGED <<gatewayVars, markedAt, call, sum, completeLog, failures, started>>

TimeComplete ==
  /\ started < MaxTimedCalls
  /\ Finished(1)
  /\ \E p \in Prompts : BeginComplete(1, p, <<>>)
  /\ started' = started + 1
  /\ UNCHANGED <<now, sum, failures>>

TimeResolve ==
  /\ \E t \in TimeTexts : ProviderResolves(1, t)
  /\ UNCHANGED <<now, sum, failures, started>>

TimeReject ==
  /\ \E e \in TimeErrors, j \in Jitters : ProviderRejects(1, e, j)
  /\ UNCHANGED <<now, sum, failures, started>>

TimeBackoff ==
  /\ call[1].pc = "backoff"
  /\ now >= call[1].wakeAt
  /\ BackoffElapsed(1)
  /\ UNCHANGED <<now, sum, failures, started>>

TimeRecover ==
  /\ \E i \in DOMAIN exhaustionTimers :
       /\ now >= exhaustionTimers[i]
       /\ TimerFires(i)
  /\ UNCHANGED <<now, sum, failures, started>>

NextTime == TimeComplete \/ TimeResolve \/ TimeReject \/ TimeBackoff \/ TimeRecover \/ Tick

SpecTime == Init /\ [][NextTime]_vars

(***************************************************************************)
(* Claims about summarize, checked under SpecSum.                          *)
(***************************************************************************)
\* '{index}. {author}: {content}' of the i-th message of a list, the author
\* being '@' and the username, else the first name, else 'Unknown'
ClaimedLine(id, i) ==
  LET m == MessagePool[id]
      author == IF m.username # <<>> THEN <<"@">> \o m.username
                ELSE IF m.firstName # <<>> THEN m.firstName
                ELSE <<"Unknown">>
  IN <<ToString(i), ". ">> \o author \o <<": ">> \o m.content

\* the rendered line of every message of the list occurs in the prompt
EveryLineIn(prompt, messages) ==
  \A i \in 1..Len(messages) : Contains(prompt, ClaimedLine(messages[i], i))

\* the single-pass call of summarize has just issued its complete call
SinglePassIssued ==
  /\ sum[1].pc = "single"
  /\ call[1].pc = "awaitProvider"
  /\ call[1].calls = 1

\* C1: summarize called with an empty message list, whatever the options,
\* returns the sentinel 'No messages found in the specified time range.',
\* issues no complete call and no provider call, and leaves the rotation
\* cursor and the exhaustion state of every credential as they were.
C1_EmptyListReturnsSentinel ==
  /\ [](sum[1].pc # "idle" /\ Len(sum[1].messages) = 0
          => /\ sum[1].pc = "returned"
             /\ sum[1].value = <<"No messages found in the specified time range.">>
             /\ completeLog[1] = <<>>
             /\ call[1].pc = "idle"
             /\ call[1].calls = 0)
  /\ [][sum[1].pc = "idle" /\ sum'[1].pc # "idle" /\ Len(sum'[1].messages) = 0
          => /\ currentKeyIndex' = currentKeyIndex
             /\ exhaustedKeys' = exhaustedKeys
             /\ exhaustionTimers' = exhaustionTimers
             /\ keys' = keys]_vars

\* an empty list was summarized on a Gateway with an exhausted credential
\* and a cursor off the first credential
C1_Witness ==
  /\ sum[1].pc = "returned"
  /\ Len(sum[1].messages) = 0
  /\ sum[1].options.customPrompt # <<>>
  /\ exhaustedKeys = {0}
  /\ currentKeyIndex = 1

\* C2 as stated: for every non-empty list of at most 1000 messages and every
\* options value, custom templates with or without the placeholder included,
\* summarize issues exactly one complete call and its prompt contains the
\* rendered line of every message.
C2_PromptHoldsEveryLine ==
  LET n == Len(sum[1].messages)
  IN sum[1].pc # "idle" /\ n >= 1 /\ n <= 1000
       => /\ Len(completeLog[1]) = 1
          /\ SinglePassIssued => EveryLineIn(completeLog[1][1], sum[1].messages)

\* a customPrompt holding the placeholder, a one-message list whose message
\* reads "costs $$5", and a prompt passed without that message's line
C2_Witness ==
  /\ SinglePassIssued
  /\ sum[1].messages = <<2>>
  /\ sum[1].options.customPrompt = <<"Recap:", "{{messages}}", "Thanks">>
  /\ completeLog[1][1] = <<"Recap:", "1", ". ", "Bob", ": ", "costs", "$", "5", "Thanks">>
  /\ ~EveryLineIn(completeLog[1][1], sum[1].messages)

\* C3 as stated: for a list of k*900 + r messages, r > 0 and k >= 1, a
\* summarize call whose completions all succeed issues exactly k + 1
\* complete calls.
C3_CallsAreChunksPlusOne ==
  LET n == Len(sum[1].messages)
  IN sum[1].pc = "returned" /\ n > 900 /\ n % 900 # 0
       => Len(completeLog[1]) = (n \div 900) + 1

\* C3, amended: for a list of k*900 + r messages, r > 0 and k >= 1, a
\* summarize call whose completions all succeed issues exactly one complete
\* call when the list has at most 1000 messages, and exactly k + 2 when it
\* has more: one per chunk (k + 1 chunks) plus one merge call.
C3_CallsAreChunksPlusMerge ==
  LET n == Len(sum[1].messages)
  IN sum[1].pc = "returned" /\ n > 900 /\ n % 900 # 0
       => Len(completeLog[1]) = IF n > 1000 THEN (n \div 900) + 2 ELSE 1

\* 1801 = 2*900 + 1 messages were summarized in 4 complete calls
C3_Witness ==
  /\ sum[1].pc = "returned"
  /\ Len(sum[1].messages) = 1801
  /\ Len(completeLog[1]) = 4
  /\ failures = 0

\* C4: for a list of n > 1000 messages, a summarize call whose completions
\* all succeed issues ceil(n/900) chunk complete calls (chunks of 900
\* messages, the last one of the rest) followed by one merge complete call,
\* whose prompt states the chunk count and the total message count n.
C4_ChunkCallsThenOneMerge ==
  LET f == sum[1]
      n == Len(f.messages)
      c == (n + 899) \div 900
      log == completeLog[1]
  IN f.pc = "returned" /\ n > 1000
       => /\ Len(log) = c + 1
          /\ Len(f.chunks) = c
          /\ \A j \in 1..c :
               /\ Len(f.chunks[j]) = IF j < c THEN 900 ELSE n - 900 * (c - 1)
               /\ ~Includes(log[j], MergePromptHead)
               /\ f.options.customPrompt = <<>>
                    => Contains(log[j], ClaimedLine(f.chunks[j][1], 1))
          /\ log[c + 1][1] = MergePromptHead
          /\ Contains(log[c + 1],
                      <<"You have received ", ToString(c), " partial summaries covering ",
                        ToString(n), MergePromptRules>>)

\* 1801 messages: chunks of 900, 900 and 1 messages, 4 complete calls
C4_Witness ==
  /\ sum[1].pc = "returned"
  /\ Len(sum[1].messages) = 1801
  /\ Len(sum[1].chunks) = 3
  /\ Len(sum[1].chunks[3]) = 1
  /\ Len(completeLog[1]) = 4
  /\ Contains(completeLog[1][4], <<"You have received ", "3", " partial summaries covering ", "1801">>)

\* C5: the chunk partition of the hierarchical path keeps the order and
\* bounds the sizes: every chunk has 1 to 900 messages, only the last may
\* have fewer than 900, and the chunks concatenated in order are the list.
C5_PartitionKeepsOrderAndSize ==
  LET f == sum[1]
      c == Len(f.chunks)
  IN f.pc # "idle" /\ Len(f.messages) > 1000
       => /\ c >= 1
          /\ \A j \in 1..c : Len(f.chunks[j]) >= 1 /\ Len(f.chunks[j]) <= 900
          /\ \A j \in 1..(c - 1) : Len(f.chunks[j]) = 900
          /\ Join(f.chunks, <<>>) = f.messages

\* a list of 1801 messages was split in two full chunks and a chunk of one
C5_Witness ==
  /\ sum[1].pc = "merge"
  /\ Len(sum[1].messages) = 1801
  /\ Len(sum[1].chunks) = 3
  /\ Len(sum[1].chunks[3]) = 1
  /\ sum[1].chunks[3][1] = sum[1].messages[1801]

\* C6 as stated: on the hierarchical path, when every chunk completion
\* succeeded and the merge call raised, summarize does not raise: it returns
\* a non-empty string that contains every chunk summary.
C6_MergeFailureDegrades ==
  LET f == sum[1]
  IN (/\ Len(f.messages) > 1000
      /\ f.pc \in {"returned", "raised"}
      /\ Len(f.chunkSummaries) = Len(f.chunks)
      /\ f.error # NoError)
       => /\ f.pc = "returned"
          /\ Truthy(f.value)
          /\ \A j \in 1..Len(f.chunkSummaries) : Contains(f.value, f.chunkSummaries[j])

\* C10: with no customPrompt, the prompt of each of the styles default,
\* detailed, brief, bullet and timeline contains that style's own clause,
\* the five clauses are pairwise distinct, every other style (absent and
\* empty included) gets the default clause, and building it raises nothing.
C10_StyleClause ==
  LET f == sum[1]
      st == f.options.summaryStyle
      clause == CASE st = "default" -> "Provide a concise, well-structured summary. Keep the summary under 300 words and use bullet points if helpful."
                  [] st = "detailed" -> "Provide a detailed, comprehensive summary. Include all important points, context, and nuances. Keep the summary under 500 words."
                  [] st = "brief" -> "Provide a very brief summary. Focus only on the most critical points. Keep the summary under 150 words."
                  [] st = "bullet" -> "Provide a summary using bullet points. Each bullet should be concise and clear. Keep the summary under 300 words."
                  [] st = "timeline" -> "Provide a chronological summary, organizing events and discussions in the order they occurred. Keep the summary under 400 words."
                  [] OTHER -> "Provide a concise, well-structured summary. Keep the summary under 300 words and use bullet points if helpful."
  IN /\ Cardinality({DefaultClause, DetailedClause, BriefClause, BulletClause, TimelineClause}) = 5
     /\ f.pc # "idle" /\ Len(f.messages) > 0 /\ f.options.customPrompt = <<>>
          => /\ Len(completeLog[1]) >= 1
             /\ \A j \in 1..Len(completeLog[1]) : Includes(completeLog[1][j], clause)
             /\ failures = 0 => f.pc # "raised"

\* a 'brief' summary and its prompt
C10_Witness ==
  /\ sum[1].pc = "returned"
  /\ sum[1].options = Opt(<<>>, "brief")
  /\ Len(sum[1].messages) = 2
  /\ Includes(completeLog[1][1], BriefClause)
  /\ ~Includes(completeLog[1][1], DefaultClause)

(***************************************************************************)
(* Claims about complete, checked under Spec and SpecTime.                 *)
(***************************************************************************)
\* C7: in a Gateway of at least 2 credentials, when a complete call starts
\* with a credential A exhausted and a credential B available, wherever the
\* cursor stands, the call issues no provider call on A before it has
\* issued one on an available credential.
C7_AvailableCredentialFirst ==
  LET f == call[1]
  IN f.pc # "idle" /\ numKeys >= 2 /\ f.startExhausted # {}
       /\ KeyIndices \ f.startExhausted # {}
       => /\ f.calls >= 1
          /\ f.attemptKeys[1] \notin f.startExhausted
          /\ f.preAvailKeys \cap f.startExhausted = {}

\* a call that started with the cursor on an exhausted credential while
\* another one was available, and went to the available one
C7_Witness ==
  LET f == call[1]
  IN /\ f.pc = "returned"
     /\ numKeys >= 2
     /\ f.startCursor \in f.startExhausted
     /\ KeyIndices \ f.startExhausted # {}
     /\ f.calls = 1
     /\ f.keyIndex \notin f.startExhausted

\* within one outer attempt the first model failed with a not-found or
\* server-class error and the second model's call succeeded
SecondModelSucceeded ==
  /\ call[1].pc = "returned"
  /\ call[1].model = 2
  /\ \/ Includes(call[1].lastError.message, "NOT_FOUND")
     \/ Includes(call[1].lastError.message, "503")
     \/ Includes(call[1].lastError.message, "500")

\* C9 as stated: when within one outer attempt the first model fails with a
\* not-found or server-class error and the second model succeeds, complete
\* returns the second model's text after exactly 2 provider calls of that
\* attempt, both on the same credential.
C9_SecondModelText ==
  SecondModelSucceeded
    => /\ call[1].value = call[1].text
       /\ call[1].attemptCalls = 2
       /\ call[1].attemptKeySet = {call[1].keyIndex}

\* C9, amended: in that case complete returns the second model's text, or
\* 'Generated summary (no text returned)' when that text is empty or
\* missing, after exactly 2 provider calls of that attempt, both on the
\* same credential, and it makes no further provider call.
C9_SecondModelTextOrPlaceholder ==
  /\ [](SecondModelSucceeded
          => /\ call[1].value = IF call[1].text = <<>>
                                  THEN <<"Generated summary (no text returned)">>
                                  ELSE call[1].text
             /\ call[1].attemptCalls = 2
             /\ call[1].attemptKeySet = {call[1].keyIndex})
  /\ [][SecondModelSucceeded /\ call'[1] # call[1] => started' = started + 1]_vars

\* the second model answered with a text after the first was not found
C9_Witness ==
  /\ SecondModelSucceeded
  /\ call[1].lastError = NotFoundFailure
  /\ call[1].text = <<"Summary", "one">>
  /\ call[1].value = <<"Summary", "one">>
  /\ call[1].calls = 2

\* C8: a credential marked exhausted at time T is available again at T + 60 s
\* by the Gateway's own timer alone, which is due then whatever else
\* happens, and it stays exhausted at every time before T + 60 s.
C8_RecoveryAfterSixtySeconds ==
  /\ [](\A i \in exhaustedKeys :
          /\ i \in DOMAIN markedAt
          /\ now <= markedAt[i] + 60000
          /\ now = markedAt[i] + 60000 => ENABLED TimerFires(i))
  /\ [][\A i \in exhaustedKeys :
          i \notin exhaustedKeys'
            => /\ now = markedAt[i] + 60000
               /\ call' = call
               /\ started' = started]_vars

\* a credential marked after the clock had started is due to recover, a
\* minute later, with no call in progress
C8_Witness ==
  \E i \in exhaustedKeys :
    /\ markedAt[i] > 0
    /\ now = markedAt[i] + 60000
    /\ call[1].pc = "raised"

(***************************************************************************)
(* Claims about the failure policy of complete.                            *)
(***************************************************************************)
\* the kinds of failure, by the marks of their message
QuotaClass(e) ==
  Includes(e.message, "QUOTA_EXCEEDED") \/ Includes(e.message, "429")
    \/ Includes(e.message, "RESOURCE_EXHAUSTED")

ServerClass(e) ==
  Includes(e.message, "NOT_FOUND") \/ Includes(e.message, "503") \/ Includes(e.message, "500")

InvalidCredentialClass(e) == Includes(e.message, "API_KEY_INVALID")

\* C11: every complete call terminates when each provider call returns; it
\* makes at most 3 outer attempts and at most 15 provider calls; a quota,
\* not-found or 5xx failure is raised only once the third outer attempt has
\* finished, and the error raised after 3 failed attempts is the failure of
\* the most recent provider call.
C11_CompleteTerminates ==
  /\ [](LET f == call[1]
            attemptOver == \/ f.decision = "break"
                           \/ f.decision = "continue" /\ f.model = 5
        IN /\ f.attempt <= 2
           /\ Len(f.attemptKeys) <= 3
           /\ f.attemptCalls <= 5
           /\ f.calls <= 15
           /\ f.pc = "raised" /\ (QuotaClass(f.lastFailure) \/ ServerClass(f.lastFailure))
                => f.attempt = 2 /\ attemptOver
           /\ f.pc = "raised" /\ attemptOver
                => f.attempt = 2 /\ f.lastError = f.lastFailure)
  /\ (call[1].pc \in {"awaitProvider", "backoff"} ~> call[1].pc \in {"returned", "raised"})

\* 15 provider calls, the first failures of another kind than the last,
\* and the last failure raised
C11_Witness ==
  /\ call[1].pc = "raised"
  /\ call[1].calls = 15
  /\ call[1].attempt = 2
  /\ call[1].startExhausted = {}
  /\ call[1].lastFailure = NotFoundFailure
  /\ call[1].lastError = NotFoundFailure
  /\ exhaustedKeys # {}

\* C12: no returned result is empty: complete never returns the empty
\* string, and a summarize call that returns, on the empty, the single-pass
\* and the hierarchical path, returns a non-empty string.
C12_NoEmptyResult ==
  /\ call[1].pc = "returned" => call[1].value # <<>> /\ call[1].value # <<"">>
  /\ sum[1].pc = "returned" => sum[1].value # <<>> /\ sum[1].value # <<"">>

\* a hierarchical summary whose merge call got an empty text
C12_Witness ==
  /\ sum[1].pc = "returned"
  /\ Len(sum[1].messages) > 1000
  /\ Len(completeLog[1]) = 3
  /\ sum[1].value = <<"Generated summary (no text returned)">>

\* C13: on the single-pass path a failure raised by the Gateway is rewrapped
\* by kind, the first kind that matches among invalid-credential,
\* permission-denied, quota-exceeded, timeout and network, each kind raising
\* its own message, the five messages being pairwise distinct; a failure of
\* no kind is raised again as it is.
C13_RewrapByKind ==
  /\ [](Cardinality({InvalidKeyMessage, PermissionMessage, QuotaMessage,
                      TimeoutMessage, NetworkMessage}) = 5)
  /\ [][sum[1].pc = "single" /\ call[1].pc = "raised" /\ sum'[1] # sum[1]
          => LET e == call[1].lastError
                 has(mark) == Includes(e.message, mark)
             IN /\ sum'[1].pc = "raised"
                /\ sum'[1].error =
                     IF has("API_KEY_INVALID") \/ has("401") \/ has("Unauthorized")
                       THEN [message |-> <<"Invalid API key. Please check your Gemini API key and ensure it's correct. You can update it using /update_api_key.">>]
                     ELSE IF has("PERMISSION_DENIED") \/ has("403")
                       THEN [message |-> <<"Permission denied. Your API key may not have access to the Gemini API. Please check your API key permissions.">>]
                     ELSE IF has("QUOTA_EXCEEDED") \/ has("429") \/ has("RESOURCE_EXHAUSTED")
                       THEN [message |-> <<"API quota exceeded. All provided API keys have reached their rate limit. Please try again later or add more keys using /update_api_key.">>]
                     ELSE IF has("timeout") \/ has("TIMEOUT")
                       THEN [message |-> <<"Request timeout. The API request took too long. Please try again.">>]
                     ELSE IF has("network") \/ has("ECONNREFUSED") \/ has("ENOTFOUND")
                       THEN [message |-> <<"Network error. Could not connect to the Gemini API. Please check your internet connection and try again.">>]
                     ELSE e]_vars

\* a quota failure came out of the Gateway, after its whole budget, and was
\* raised by summarize with the quota message
C13_Witness ==
  /\ sum[1].pc = "raised"
  /\ sum[1].error = Err(<<QuotaMessage>>)
  /\ exhaustedKeys = KeyIndices
  /\ numKeys = 2

\* a step in which the provider call of request 1 fails
RejectStep ==
  /\ call[1].pc = "awaitProvider"
  /\ call'[1] # call[1]
  /\ call'[1].pc # "returned"

\* a step in which request 1 starts an outer attempt
AttemptStep ==
  /\ call[1].pc # "awaitProvider"
  /\ call'[1].pc = "awaitProvider"

\* C14: a provider failure that is neither quota-class, nor not-found or
\* server-class, nor invalid-credential-class is raised by complete at once,
\* the same failure: no further provider call, no backoff wait, and the
\* exhaustion state of every credential as it was.
C14_OtherFailureRaisedAtOnce ==
  [][LET e == call'[1].lastFailure
     IN RejectStep /\ ~QuotaClass(e) /\ ~ServerClass(e) /\ ~InvalidCredentialClass(e)
          => /\ call'[1].pc = "raised"
             /\ call'[1].lastError = e
             /\ call'[1].calls = call[1].calls
             /\ call'[1].attempt = call[1].attempt
             /\ call'[1].wakeAt = call[1].wakeAt
             /\ exhaustedKeys' = exhaustedKeys
             /\ exhaustionTimers' = exhaustionTimers
             /\ currentKeyIndex' = currentKeyIndex]_vars

\* a permission failure raised in the second outer attempt, after a rotation
C14_Witness ==
  /\ call[1].pc = "raised"
  /\ call[1].lastError = DeniedFailure
  /\ call[1].attempt = 1
  /\ call[1].calls = 2
  /\ exhaustedKeys # {}

\* the provider call of request 1 on its credential fails with a quota-class
\* failure while another credential is available
QuotaWithAlternative ==
  /\ RejectStep
  /\ QuotaClass(call'[1].lastFailure)
  /\ \E other \in KeyIndices \ {call[1].keyIndex} : other \notin exhaustedKeys

\* request 1 leaves a backoff wait that followed a quota-class failure with
\* which it had left the Model Chain
AttemptAfterRotation ==
  /\ call[1].pc = "backoff"
  /\ call'[1].pc = "awaitProvider"
  /\ QuotaClass(call[1].lastFailure)
  /\ call[1].decision = "break"

\* C15 as stated: when a provider call on credential c fails with a
\* quota-class failure and another credential is available, c is marked
\* exhausted, no further model is tried on c in that outer attempt, and the
\* next outer attempt issues its first provider call, with the first model,
\* on a credential other than c, in every execution, the ones where recovery
\* timers fire or other complete calls run meanwhile included.
C15_RotatesAwayInEveryExecution ==
  /\ [][QuotaWithAlternative
          => /\ call[1].keyIndex \in exhaustedKeys'
             /\ call'[1].pc \in {"backoff", "raised"}
             /\ call'[1].calls = call[1].calls]_vars
  /\ [][AttemptAfterRotation
          => /\ call'[1].model = 1
             /\ call'[1].keyIndex # call[1].keyIndex]_vars

\* C15, amended: ... c is marked exhausted, no further model is tried on c
\* in that outer attempt, and the next outer attempt issues its first
\* provider call with the first model; that call is on a credential other
\* than c provided that, when the attempt starts, c is still exhausted and
\* another credential is available.
C15_RotatesAwayWhileStillExhausted ==
  /\ [][QuotaWithAlternative
          => /\ call[1].keyIndex \in exhaustedKeys'
             /\ call'[1].pc \in {"backoff", "raised"}
             /\ call'[1].calls = call[1].calls]_vars
  /\ [][AttemptAfterRotation
          => /\ call'[1].model = 1
             /\ call'[1].calls = call[1].calls + 1
             /\ (call[1].keyIndex \in exhaustedKeys /\ exhaustedKeys # KeyIndices)
                  => /\ call'[1].keyIndex # call[1].keyIndex
                     /\ call'[1].keyIndex \notin exhaustedKeys]_vars

\* the second outer attempt of request 1 runs on another credential than
\* the first, which failed on quota, while request 2 is in flight
C15_Witness ==
  /\ call[1].pc = "awaitProvider"
  /\ call[1].attempt = 1
  /\ call[1].model = 1
  /\ call[1].lastFailure = QuotaFailure
  /\ call[1].decision = "break"
  /\ call[1].attemptKeys = <<0, 1>>
  /\ 0 \in exhaustedKeys
  /\ call[2].pc = "backoff"

\* request 1 leaves a backoff wait that followed a failure e of its latest
\* provider call
AttemptAfter(e) ==
  /\ call[1].pc = "backoff"
  /\ call'[1].pc = "awaitProvider"
  /\ call[1].lastFailure = e

\* C16: after a provider call on credential c fails with an
\* invalid-credential failure (API_KEY_INVALID), the same complete call
\* issues no further provider call on c in a later outer attempt; when
\* another credential exists the call is not aborted, and its next outer
\* attempt uses a credential other than c.
C16_InvalidCredentialLeftBehind ==
  /\ [][RejectStep /\ call'[1].lastFailure = InvalidKeyFailure /\ numKeys > 1
          => /\ call'[1].calls = call[1].calls
             /\ (call[1].attempt < maxGlobalRetries - 1 => call'[1].pc = "backoff")]_vars
  /\ [][AttemptAfter(InvalidKeyFailure)
          => call'[1].keyIndex # call[1].keyIndex]_vars

\* C17: when a provider call on credential c fails with a quota-class
\* failure and no other credential is available, the same outer attempt
\* continues with the next model of the Model Chain on c, and so on through
\* the chain for as long as the failures are quota-class and no other
\* credential becomes available.
C17_QuotaWithoutAlternativeWalksChain ==
  [][( /\ RejectStep
       /\ QuotaClass(call'[1].lastFailure)
       /\ KeyIndices \ {call[1].keyIndex} \subseteq exhaustedKeys )
        => /\ call[1].keyIndex \in exhaustedKeys'
           /\ call[1].model < Len(models)
                => /\ call'[1].pc = "awaitProvider"
                   /\ call'[1].model = call[1].model + 1
                   /\ call'[1].keyIndex = call[1].keyIndex
                   /\ call'[1].attempt = call[1].attempt
                   /\ call'[1].calls = call[1].calls + 1
                   /\ call'[1].attemptCalls = call[1].attemptCalls + 1
                   /\ call'[1].attemptKeySet = {call[1].keyIndex}
                   /\ currentKeyIndex' = currentKeyIndex]_vars

\* the fifth model is awaited on credential 1 of two, after four quota
\* failures on it in this outer attempt while credential 0 was exhausted
C17_Witness ==
  /\ numKeys = 2
  /\ call[1].pc = "awaitProvider"
  /\ call[1].model = Len(models)
  /\ call[1].attemptCalls = Len(models)
  /\ call[1].attemptKeySet = {1}
  /\ call[1].lastFailure = QuotaFailure
  /\ call[1].decision = "continue"
  /\ exhaustedKeys = {0, 1}

\* C18: when a provider call fails with a non-transient permission
\* rejection (PERMISSION_DENIED / 403): if no alternative credential
\* remains, complete raises at once without retry; if another credential is
\* available, complete does not raise but treats the credential as unusable
\* and continues with the next credential.
C18_PermissionRejectionRotates ==
  /\ [][( /\ RejectStep
           /\ call'[1].lastFailure = DeniedFailure
           /\ KeyIndices \ {call[1].keyIndex} \subseteq exhaustedKeys )
            => /\ call'[1].pc = "raised"
               /\ call'[1].lastError = DeniedFailure
               /\ call'[1].calls = call[1].calls]_vars
  /\ [][( /\ RejectStep
           /\ call'[1].lastFailure = DeniedFailure
           /\ call[1].attempt < maxGlobalRetries - 1
           /\ \E other \in KeyIndices \ {call[1].keyIndex} : other \notin exhaustedKeys )
            => call'[1].pc # "raised"]_vars
  /\ [][AttemptAfter(DeniedFailure)
          => call'[1].keyIndex # call[1].keyIndex]_vars

\* the distance from index a forward to index b on the ring of credentials
CircularDistance(a, b) == (b - a + numKeys) % numKeys

\* C19: at the start of every outer attempt in which at least one credential
\* is available, the credential selected is the first available one in
\* circular order starting at, and including, the Rotation Cursor position,
\* and the cursor is set to that credential's index before the first
\* provider call of the attempt.
C19_FirstAvailableFromCursor ==
  [][AttemptStep /\ exhaustedKeys # KeyIndices
      => LET k == call'[1].keyIndex
         IN /\ k \in KeyIndices \ exhaustedKeys
            /\ \A j \in KeyIndices \ exhaustedKeys :
                  CircularDistance(currentKeyIndex, k) <= CircularDistance(currentKeyIndex, j)
            /\ currentKeyIndex' = k
            /\ call'[1].model = 1
            /\ call'[1].attemptCalls = 1
            /\ call'[1].attemptKeySet = {k}
            /\ exhaustedKeys' = exhaustedKeys]_vars

\* the third outer attempt wrapped around: the cursor stood on credential 1,
\* exhausted, and the scan went on to credential 0, available again
C19_Witness ==
  /\ call[1].pc = "awaitProvider"
  /\ call[1].attemptKeys = <<0, 1, 0>>
  /\ call[1].attemptCalls = 1
  /\ exhaustedKeys = {1}
  /\ currentKeyIndex = 0

\* C20: when every credential is exhausted at the start of an outer attempt,
\* the attempt does not wait for a recovery: it selects the credential at
\* the Rotation Cursor's position as it was before the scan, leaves the
\* cursor there, and issues a provider call on that credential.
C20_AllExhaustedUsesCursor ==
  /\ [](call[1].pc = "backoff" /\ exhaustedKeys = KeyIndices => ENABLED Backoff)
  /\ [][AttemptStep /\ exhaustedKeys = KeyIndices
          => /\ call'[1].keyIndex = currentKeyIndex
             /\ currentKeyIndex' = currentKeyIndex
             /\ call'[1].attemptCalls = 1
             /\ call'[1].attemptKeySet = {currentKeyIndex}
             /\ call'[1].model = 1
             /\ exhaustedKeys' = exhaustedKeys
             /\ exhaustionTimers' = exhaustionTimers]_vars

\* the third outer attempt started on credential 1 of two, at the cursor,
\* with both credentials exhausted
C20_Witness ==
  /\ numKeys = 2
  /\ call[1].pc = "awaitProvider"
  /\ call[1].attempt = 2
  /\ call[1].attemptKeys = <<0, 1, 1>>
  /\ call[1].attemptCalls = 1
  /\ currentKeyIndex = 1
  /\ exhaustedKeys = {0, 1}

\* the provider call of request r fails with a quota-class failure on a
\* credential that is exhausted already
MarksExhaustedAgain(r) ==
  /\ call[r].pc = "awaitProvider"
  /\ call'[r] # call[r]
  /\ call'[r].pc # "returned"
  /\ QuotaClass(call'[r].lastFailure)
  /\ call[r].keyIndex \in exhaustedKeys

\* C21: in every reachable state, under any interleaving of concurrent
\* complete calls and timer firings, each exhausted credential has exactly
\* one outstanding recovery timer and each available credential has none;
\* marking an already exhausted credential changes nothing and arms no
\* second timer.
C21_OneTimerPerExhaustedCredential ==
  /\ [](/\ DOMAIN exhaustionTimers = exhaustedKeys
         /\ exhaustedKeys \subseteq KeyIndices)
  /\ [][\A r \in Requests :
          MarksExhaustedAgain(r)
            => /\ exhaustedKeys' = exhaustedKeys
               /\ exhaustionTimers' = exhaustionTimers
               /\ markedAt' = markedAt]_vars
  /\ [][\A r \in Requests :
          ( /\ call[r].pc = "awaitProvider"
            /\ call'[r] # call[r]
            /\ call'[r].pc # "returned"
            /\ QuotaClass(call'[r].lastFailure)
            /\ call[r].keyIndex \notin exhaustedKeys )
            => /\ exhaustedKeys' = exhaustedKeys \cup {call[r].keyIndex}
               /\ DOMAIN exhaustionTimers' = DOMAIN exhaustionTimers \cup {call[r].keyIndex}
               /\ \A i \in DOMAIN exhaustionTimers : exhaustionTimers'[i] = exhaustionTimers[i]]_vars

\* on a Gateway of one credential, request 1 has failed twice and request 2
\* once, all on quota: the credential is exhausted with its one timer
C21_Witness ==
  /\ numKeys = 1
  /\ call[1].pc = "awaitProvider" /\ call[1].model = 3 /\ QuotaClass(call[1].lastFailure)
  /\ call[2].pc = "awaitProvider" /\ call[2].model = 2 /\ QuotaClass(call[2].lastFailure)
  /\ failures = 3
  /\ exhaustedKeys = {0}
  /\ DOMAIN exhaustionTimers = {0}

\* request 1, whose complete call has returned, starts its next complete call
NextCallStep ==
  /\ call[1].pc = "returned"
  /\ call'[1].pc = "awaitProvider"

\* C22: when a complete call returns successfully and no other complete call
\* ran on the Gateway meanwhile, the Rotation Cursor equals the index of the
\* credential whose provider call succeeded, so the next complete call starts
\* its scan at that credential.
C22_CursorAtCredentialThatSucceeded ==
  /\ [](call[1].pc = "returned"
          => /\ currentKeyIndex = call[1].keyIndex
             /\ call[1].keyIndex = call[1].attemptKeys[Len(call[1].attemptKeys)]
             /\ call[1].attemptKeySet = {call[1].keyIndex})
  /\ [][NextCallStep
          => /\ call'[1].startCursor = call[1].keyIndex
             /\ (call[1].keyIndex \notin exhaustedKeys
                   => call'[1].keyIndex = call[1].keyIndex)]_vars

\* the call returned from its second outer attempt, on credential 1, after a
\* quota failure on credential 0: the cursor stands on credential 1
C22_Witness ==
  /\ call[1].pc = "returned"
  /\ call[1].attemptKeys = <<0, 1>>
  /\ call[1].startCursor = 0
  /\ currentKeyIndex = 1

\* request 1 starts a complete call right after one that returned, on a
\* Gateway with at least 2 available credentials
ConsecutiveCallStep ==
  /\ NextCallStep
  /\ Cardinality(KeyIndices \ exhaustedKeys) >= 2

\* C23 as stated: the Rotation Cursor advances after each successful complete
\* call to spread load: in a Gateway with at least 2 available credentials,
\* two consecutive successful complete calls do not start their search at
\* the same credential.
C23_CursorAdvancesAfterSuccess ==
  [][ConsecutiveCallStep => call'[1].startCursor # call[1].startCursor]_vars

\* C23, amended: a successful complete call leaves the Rotation Cursor on
\* the credential that succeeded: the next complete call starts its search
\* there, which is where the first one started unless the first one had to
\* rotate, and it issues its first provider call on that same credential
\* when it is still available.
C23_CursorStaysAfterSuccess ==
  [][ConsecutiveCallStep
      => /\ call'[1].startCursor = call[1].keyIndex
         /\ (Len(call[1].attemptKeys) = 1 /\ call[1].startCursor \notin call[1].startExhausted
               => call'[1].startCursor = call[1].startCursor)
         /\ (call[1].keyIndex \notin exhaustedKeys
               => call'[1].attemptKeys = <<call[1].keyIndex>>)]_vars

\* the second of two complete calls is in flight on credential 0 of two, both
\* available, where the first call searched, succeeded and left the cursor
C23_Witness ==
  /\ numKeys = 2
  /\ started = 2
  /\ call[1].pc = "awaitProvider"
  /\ call[1].startCursor = 0
  /\ call[1].attemptKeys = <<0>>
  /\ call[1].calls = 1
  /\ exhaustedKeys = {}

\* a recovery timer fires
RecoveryStep == DOMAIN exhaustionTimers' # DOMAIN exhaustionTimers
                  /\ DOMAIN exhaustionTimers' \subseteq DOMAIN exhaustionTimers

\* C24: the recovery of a credential (its timer firing) changes only that
\* credential's state and timer entry: the Rotation Cursor and the state of
\* every other credential are unchanged, so a recovered credential with a
\* lower index is not preferred over the credential the cursor points at.
C24_RecoveryLeavesCursor ==
  /\ [][RecoveryStep
          => /\ \E i \in exhaustedKeys :
                  /\ exhaustedKeys' = exhaustedKeys \ {i}
                  /\ DOMAIN exhaustionTimers' = DOMAIN exhaustionTimers \ {i}
                  /\ \A j \in DOMAIN exhaustionTimers' :
                        exhaustionTimers'[j] = exhaustionTimers[j]
             /\ currentKeyIndex' = currentKeyIndex
             /\ keys' = keys
             /\ call' = call]_vars
  /\ [][AttemptStep /\ currentKeyIndex \notin exhaustedKeys
          => /\ call'[1].keyIndex = currentKeyIndex
             /\ currentKeyIndex' = currentKeyIndex]_vars

\* credential 0 has recovered before the second complete call, which still
\* runs on credential 1, where the cursor was left
C24_Witness ==
  /\ numKeys = 2
  /\ started = 2
  /\ call[1].pc = "awaitProvider"
  /\ call[1].startCursor = 1
  /\ call[1].startExhausted = {}
  /\ call[1].attemptKeys = <<1>>
  /\ currentKeyIndex = 1
  /\ exhaustedKeys = {}

\* C25: on the hierarchical path, if the complete call of chunk i raises,
\* summarize raises that same raw Gateway error without rewrapping it,
\* starts no complete call for any chunk after i, makes no merge call, and
\* returns no partial summary.
C25_ChunkFailureRaisedRaw ==
  /\ [][( /\ sum[1].pc = "chunks"
           /\ call[1].pc = "raised"
           /\ sum'[1] # sum[1] )
            => /\ sum'[1].pc = "raised"
               /\ sum'[1].error = call[1].lastError
               /\ sum'[1].error \in SumErrors
               /\ sum'[1].value = <<>>
               /\ sum'[1].chunkSummaries = sum[1].chunkSummaries
               /\ completeLog' = completeLog
               /\ call'[1].pc = "idle"]_vars
  /\ [](sum[1].pc = "raised" /\ Len(sum[1].chunkSummaries) < Len(sum[1].chunks)
          => /\ Len(completeLog[1]) = sum[1].i
             /\ Len(sum[1].chunkSummaries) = sum[1].i - 1
             /\ completeLog[1][sum[1].i]
                   = summarizeChunkPrompt(sum[1].chunks[sum[1].i], sum[1].options)
             /\ call[1].pc = "idle"
             /\ ~ENABLED SumChunk
             /\ ~ENABLED SumMerge)

\* the second of three chunks failed with a permission rejection, which the
\* single-pass path would have rewrapped
C25_Witness ==
  /\ sum[1].pc = "raised"
  /\ Len(sum[1].chunks) = 3
  /\ sum[1].i = 2
  /\ Len(sum[1].chunkSummaries) = 1
  /\ sum[1].error = DeniedFailure
  /\ Rewrap(DeniedFailure) # DeniedFailure
  /\ Len(completeLog[1]) = 2

\* the request starts a complete call that is not its first
LaterCompleteStep ==
  /\ completeLog'[1] # completeLog[1]
  /\ Len(completeLog'[1]) > 1

\* C26: within one summarize request, chunk processing is strictly
\* sequential: the complete call for chunk i+1 does not start before the
\* complete call for chunk i has returned, the merge call does not start
\* before the last chunk's call has returned, and at every moment the
\* request has at most one provider call outstanding.
C26_ChunksOneAtATime ==
  /\ [][LaterCompleteStep
          => /\ call[1].pc = "returned"
             /\ completeLog'[1] = Append(completeLog[1], completeLog'[1][Len(completeLog'[1])])
             /\ Len(sum'[1].chunkSummaries) = Len(completeLog[1])
             /\ sum'[1].pc \in {"chunks", "merge"}
             /\ (sum'[1].pc = "chunks"
                   => /\ sum'[1].i = Len(completeLog'[1])
                      /\ completeLog'[1][sum'[1].i]
                            = summarizeChunkPrompt(sum[1].chunks[sum'[1].i], sum[1].options))
             /\ (sum'[1].pc = "merge"
                   => /\ Len(sum'[1].chunkSummaries) = Len(sum[1].chunks)
                      /\ Len(completeLog'[1]) = Len(sum[1].chunks) + 1)]_vars
  /\ [](sum[1].pc \in {"chunks", "merge"}
          => /\ Len(completeLog[1]) - Len(sum[1].chunkSummaries) = 1
             /\ call[1].pc # "idle"
             /\ call[1].attemptCalls <= Len(models)
             /\ call[2].pc = "idle")

\* the merge call of a request of three chunks is awaited: it is the fourth
\* complete call, and the three chunk summaries are in
C26_Witness ==
  /\ sum[1].pc = "merge"
  /\ call[1].pc = "awaitProvider"
  /\ Len(sum[1].chunks) = 3
  /\ Len(sum[1].chunkSummaries) = 3
  /\ Len(completeLog[1]) = 4

\* the positions of the chunk labels in a prompt, and the i-th of them
LabelPositions(p) == { k \in 1..Len(p) : p[k] = "[Chunk " }
NthLabel(p, i) ==
  CHOOSE k \in LabelPositions(p) :
    Cardinality({ j \in LabelPositions(p) : j < k }) = i - 1

\* C27: on the hierarchical path, the merge prompt contains exactly one
\* labeled chunk summary per chunk, in original chunk order, chunk i of N
\* being labeled 'Chunk i/N' with that chunk's message count; no chunk
\* summary is dropped, duplicated or reordered.
C27_MergePromptLabelsEveryChunk ==
  /\ [][( /\ sum[1].pc = "chunks"
           /\ call[1].pc = "returned"
           /\ sum'[1] # sum[1] )
            => LET i == sum[1].i
                   added == sum'[1].chunkSummaries[i]
               IN /\ Len(sum'[1].chunkSummaries) = i
                  /\ \A j \in 1..(i - 1) :
                        sum'[1].chunkSummaries[j] = sum[1].chunkSummaries[j]
                  /\ Len(added) = 7 + Len(call[1].value)
                  /\ \A k \in 1..Len(call[1].value) : added[7 + k] = call[1].value[k]]_vars
  /\ [](sum[1].pc = "merge"
          => LET N == Len(sum[1].chunks)
                 p == completeLog[1][N + 1]
             IN /\ N >= 2
                /\ Cardinality(LabelPositions(p)) = N
                /\ Cardinality({ k \in 1..Len(p) : p[k] = MergeSeparator[1] }) = N - 1
                /\ \A i \in 1..N :
                      LET k == NthLabel(p, i)
                          summary == sum[1].chunkSummaries[i]
                      IN /\ p[k + 1] = ToString(i)
                         /\ p[k + 2] = "/"
                         /\ p[k + 3] = ToString(N)
                         /\ p[k + 5] = ToString(Len(sum[1].chunks[i]))
                         /\ p[k + 6] = " messages]:\n"
                         /\ \A d \in 1..Len(summary) : p[k + d - 1] = summary[d])

\* the merge call of 1801 messages is awaited: three chunks, of 900, 900 and
\* 1 messages, whose calls returned a text, the placeholder and a text
C27_Witness ==
  /\ sum[1].pc = "merge"
  /\ Len(sum[1].chunks) = 3
  /\ Len(sum[1].chunks[3]) = 1
  /\ Len(sum[1].chunkSummaries[1]) = 9
  /\ sum[1].chunkSummaries[2][8] = NoTextPlaceholder[1]
  /\ Cardinality(LabelPositions(completeLog[1][4])) = 3

AttemptFailsStep ==
  /\ RejectStep
  /\ call'[1].pc # "awaitProvider"

\* C29: in complete, every outer attempt that ends without success and is
\* not the final (third) one is followed by exactly one backoff wait of
\* 1000 ms plus a jitter in [0, 1000) ms before the next outer attempt
\* starts; no wait follows the final outer attempt and no wait follows a
\* successful provider call.
\* (An attempt whose failure complete raises at once has no next attempt,
\* and no wait.)
C29_OneBackoffBetweenAttempts ==
  /\ [][AttemptFailsStep /\ call'[1].decision # "throw"
          => IF call[1].attempt < maxGlobalRetries - 1
               THEN /\ call'[1].pc = "backoff"
                    /\ call'[1].wakeAt - now \in 1000..1999
                    /\ Len(call'[1].waits) = Len(call[1].waits) + 1
                    /\ Len(call'[1].waits) = call[1].attempt + 1
               ELSE /\ call'[1].pc = "raised"
                    /\ call'[1].waits = call[1].waits
                    /\ call'[1].wakeAt = call[1].wakeAt]_vars
  /\ [][AttemptFailsStep /\ call'[1].decision = "throw"
          => /\ call'[1].pc = "raised"
             /\ call'[1].waits = call[1].waits]_vars
  /\ [][call[1].pc = "backoff" /\ call'[1] # call[1]
          => /\ now >= call[1].wakeAt
             /\ call'[1].pc = "awaitProvider"
             /\ call'[1].attempt = call[1].attempt + 1
             /\ call'[1].waits = call[1].waits]_vars
  /\ [][call'[1].pc = "awaitProvider" /\ call'[1].attempt # call[1].attempt
          => \/ call[1].pc = "backoff"
             \/ call'[1].attempt = 0]_vars
  /\ [][call[1].pc = "awaitProvider" /\ call'[1].pc = "returned"
          => /\ call'[1].waits = call[1].waits
             /\ call'[1].wakeAt = call[1].wakeAt]_vars
  /\ [][call[1].pc \in {"returned", "raised"} => call'[1].pc # "backoff"]_vars

\* the call has raised after its third outer attempt: two waits, of 1999 ms
\* and of 1000 ms, ended 2999 ms after the first failure at the earliest
C29_Witness ==
  /\ call[1].pc = "raised"
  /\ call[1].attempt = maxGlobalRetries - 1
  /\ Len(call[1].waits) = 2
  /\ call[1].waits[1] = 1999
  /\ now >= 2999

\* C30 as stated: the Gateway's global retries use exponential backoff:
\* within one complete call the wait before outer attempt n+2 is longer than
\* the wait before outer attempt n+1.
C30_BackoffGrowsWithAttempt ==
  \A n \in 1..(Len(call[1].waits) - 1) : call[1].waits[n + 1] > call[1].waits[n]

\* C30, amended: the Gateway's global retries use a flat backoff with
\* jitter: within one complete call there are at most 2 waits, and each,
\* whatever the attempt number, is of 1000 ms plus a jitter in [0, 1000) ms,
\* drawn anew for each wait.
C30_BackoffFlatWithJitter ==
  /\ Len(call[1].waits) <= maxGlobalRetries - 1
  /\ \A n \in 1..Len(call[1].waits) : call[1].waits[n] \in 1000..1999
  /\ (call[1].pc = "backoff"
        => call[1].wakeAt - call[1].waits[Len(call[1].waits)] \in 0..now)

\* the second wait of the call is shorter than the first
C30_Witness ==
  /\ call[1].pc = "backoff"
  /\ call[1].attempt = 1
  /\ call[1].waits = <<1999, 1000>>

\* C31: whenever complete raises a quota-class failure, quota exhaustion
\* has been observed on all credentials: every credential of the Gateway,
\* for any number of credentials including more than 3, is exhausted at the
\* moment of the raise.
C31_QuotaRaisedOnlyWhenAllExhausted ==
  call[1].pc = "raised" /\ QuotaClass(call[1].lastError)
    => exhaustedKeys = KeyIndices

C33_RecoveryNotPostponed ==
  /\ \A i \in exhaustedKeys :
        /\ i \in DOMAIN exhaustionTimers
        /\ i \in DOMAIN markedAt
        /\ exhaustionTimers[i] = markedAt[i] + 60000
        /\ markedAt[i] <= now
        /\ now <= exhaustionTimers[i]
  /\ LET k == call[1].keyIndex
     IN ( /\ call[1].pc \in {"awaitProvider", "backoff", "raised"}
          /\ QuotaClass(call[1].lastFailure)
          /\ k \in exhaustedKeys
          /\ markedAt[k] < call[1].failedAt )
          => exhaustionTimers[k] < call[1].failedAt + 60000

\* the only credential was marked at 0 ms and failed on quota again at
\* 30000 ms: its timer is still due at 60000 ms
C33_Witness ==
  /\ numKeys = 1
  /\ now = 30000
  /\ call[1].pc = "awaitProvider"
  /\ call[1].attempt = 0
  /\ call[1].model = 3
  /\ call[1].lastFailure = QuotaFailure
  /\ call[1].failedAt = 30000
  /\ exhaustedKeys = {0}
  /\ markedAt[0] = 0
  /\ exhaustionTimers[0] = 60000

\* request r starts an outer attempt: it issues the attempt's first call
AttemptStepOf(r) ==
  /\ call[r].pc # "awaitProvider"
  /\ call'[r].pc = "awaitProvider"

\* C34: under any interleaving of concurrent complete calls and
\* recovery-timer firings on one shared Gateway, the credential on which an
\* outer attempt issues its first provider call is not exhausted at the
\* moment of that call unless every credential is exhausted at that moment.
C34_AttemptStartsOnAvailableCredential ==
  [][\A r \in Requests :
      AttemptStepOf(r)
        => /\ call'[r].keyIndex \in KeyIndices
           /\ call'[r].attemptCalls = 1
           /\ exhaustedKeys' = exhaustedKeys
           /\ (call'[r].keyIndex \in exhaustedKeys => exhaustedKeys = KeyIndices)]_vars

\* request 1 starts its second attempt after request 2 has moved the cursor
\* to credential 1 and exhausted it: the scan goes round to credential 0,
\* which has recovered meanwhile
C34_Witness ==
  /\ numKeys = 2
  /\ call[1].pc = "awaitProvider"
  /\ call[1].attemptKeys = <<0, 0>>
  /\ call[1].attemptCalls = 1
  /\ call[2].pc = "awaitProvider"
  /\ call[2].attemptKeys = <<1>>
  /\ call[2].model = 2
  /\ currentKeyIndex = 0
  /\ exhaustedKeys = {1}

\* C35: every message list handed to summarize by a caller in the
\* repository (the /tldr commands, the scheduled summaries, and the summaries
\* made before old messages are deleted) has at most 10,000 messages, so
\* summarize never builds more than 12 chunks.
C35_AtMostTenThousandMessages ==
  /\ Len(sum[1].messages) <= 10000
  /\ Len(sum[1].chunks) <= 12

\* the number of message lines a prompt renders: each line has one ". "
\* after its number
RenderedCount(p) == Cardinality({ k \in 1..Len(p) : p[k] = ". " })

\* the request starts a complete call whose prompt is built from messages
MessagePromptStep ==
  /\ completeLog'[1] # completeLog[1]
  /\ Len(completeLog'[1]) >= 1
  /\ sum'[1].pc \in {"single", "chunks"}

\* C36: whatever the length of the input list, no prompt built from chat
\* messages renders more than 1000 messages, and every chunk prompt built
\* on the hierarchical path renders at most 900 messages.
C36_PromptSizeBounded ==
  [][MessagePromptStep
      => LET p == completeLog'[1][Len(completeLog'[1])]
             custom == sum'[1].options.customPrompt
         IN /\ RenderedCount(p) <= 1000
            /\ (sum'[1].pc = "single" /\ (custom = <<>> \/ Includes(custom, Placeholder))
                  => RenderedCount(p) = Len(sum'[1].messages))
            /\ (sum'[1].pc = "chunks"
                  => /\ RenderedCount(p) <= 900
                     /\ Len(sum'[1].chunks[sum'[1].i]) <= 900
                     /\ (custom = <<>> \/ Includes(custom, Placeholder))
                           => RenderedCount(p) = Len(sum'[1].chunks[sum'[1].i]))]_vars

\* a list of 1000 messages goes in one prompt of 1000 lines
C36_Witness ==
  /\ sum[1].pc = "single"
  /\ Len(sum[1].messages) = 1000
  /\ Len(completeLog[1]) = 1
  /\ RenderedCount(completeLog[1][1]) = 1000

\* a step in which the provider call of request r fails
RejectStepOf(r) ==
  /\ call[r].pc = "awaitProvider"
  /\ call'[r] # call[r]
  /\ call'[r].pc # "returned"

\* C37: under any interleaving of concurrent complete calls on one shared
\* Gateway, a quota-class failure of a provider call issued with credential
\* c marks exactly c as exhausted and no other credential, even when other
\* calls have moved the cursor away from c while the provider call was
\* outstanding.
C37_QuotaFailureMarksItsOwnCredential ==
  [][\A r \in Requests :
       (RejectStepOf(r) /\ QuotaClass(call'[r].lastFailure))
         => LET c == call[r].attemptKeys[Len(call[r].attemptKeys)]
            IN /\ exhaustedKeys' = exhaustedKeys \cup {c}
               /\ DOMAIN exhaustionTimers' = (DOMAIN exhaustionTimers) \cup {c}
               /\ \A i \in (DOMAIN exhaustionTimers) \ {c} :
                    exhaustionTimers'[i] = exhaustionTimers[i]]_vars

\* request 1 was issued with credential 0, the cursor stood on credential 1
\* when its call failed for quota, and credential 0 is the one exhausted
C37_Witness ==
  /\ call[1].pc = "backoff"
  /\ QuotaClass(call[1].lastFailure)
  /\ call[1].attemptKeys = <<0>>
  /\ call[1].failedCursor = 1
  /\ exhaustedKeys = {0}
  /\ call[2].pc = "awaitProvider"
  /\ call[2].keyIndex = 1

\* C38: a credential changes from available to exhausted only through a
\* quota-class failure of a provider call made with it: a success, a
\* not-found or server-class failure, an invalid-credential failure or an
\* unclassified failure leaves every credential state and every recovery
\* timer unchanged.
C38_OnlyQuotaFailureExhausts ==
  [][/\ \A k \in KeyIndices :
          (k \notin exhaustedKeys /\ k \in exhaustedKeys')
            => /\ RejectStep
               /\ QuotaClass(call'[1].lastFailure)
               /\ call[1].attemptKeys[Len(call[1].attemptKeys)] = k
     /\ (/\ call[1].pc = "awaitProvider"
         /\ call'[1] # call[1]
         /\ ~(RejectStep /\ QuotaClass(call'[1].lastFailure)))
          => /\ exhaustedKeys' = exhaustedKeys
             /\ exhaustionTimers' = exhaustionTimers]_vars

\* credential 0 was exhausted by a quota failure of the first attempt; the
\* server-class failure of the call made with credential 1 left credential
\* 1 available and no timer armed for it
C38_Witness ==
  /\ call[1].attemptKeys = <<0, 1>>
  /\ call[1].pc = "awaitProvider"
  /\ call[1].model = 2
  /\ ServerClass(call[1].lastFailure)
  /\ ~QuotaClass(call[1].lastFailure)
  /\ exhaustedKeys = {0}
  /\ DOMAIN exhaustionTimers = {0}

====
